---- MODULE Spec2Model ----
(***************************************************************************)
(* The credit ledger, the listing/application/booking creation handlers,  *)
(* the post list, the application responses, the booking state machine,   *)
(* the escrow and connect handlers, the credit purchases and the profile  *)
(* and payment-info responses of the marketplace server (DatabaseStorage  *)
(* and the route handlers registered by registerRoutes), and the toast    *)
(* store of the browser (use-toast).                                      *)
(*                                                                         *)
(* Every request is a process p with a position pc[p] and locals req[p].  *)
(* Each `await` on the database is one step: a step reads or writes the   *)
(* shared tables once, exactly as one SQL statement does.  The serial      *)
(* specifications let a request run to its end before the next starts;    *)
(* the other specifications interleave the steps of concurrent requests.  *)
(***************************************************************************)
EXTENDS Integers, Sequences, FiniteSets, TLC

\* ------------------------------------------------------------ bounds
NumProcs == 2
MaxAmount == 2
MaxLog == 3

\* ------------------------------------------------- program constants
INITIAL_CREDITS == 3

\* Two account holders: enough for a request to meet another user's rows.
Users == {"u1", "u2"}
Procs == 1..NumProcs
Amounts == 1..MaxAmount

\* A select returns the array of matching rows and the code takes its first
\* element: Undefined is the empty array, Row(b) the array of one credit row.
Undefined == <<>>

Row(b) == <<[balance |-> b]>>

Balance(row) == row[1].balance

\* A nullable column: no value, or one.
Null == <<>>

Some(n) == <<n>>

\* The checkout sessions the payment provider can hold, by id.
NumSessions == 1

Sessions == 1..NumSessions

\* The fields of an updateBookingStripeInfo call; Null and "keep" for a field
\* the call does not pass.
NoInfo ==
  [stripeSessionId |-> Null, stripePaymentIntentId |-> Null,
   paymentMethod |-> "keep", status |-> "keep"]

VARIABLES
  credits,      \* table credits: userId -> the user's rows (at most one: userId is UNIQUE)
  creditLogs,   \* table credit_logs: userId -> the user's entries, oldest first
  profiles,     \* table profiles: userId -> the plan of the user's profile
  posts,        \* table posts: the rows, by id
  applications, \* table applications: the rows, by id
  bookings,     \* table bookings: the rows, by id
  verificationRequests,      \* table verification_requests: the rows, by id
  professionalVerifications, \* table professional_verifications: the rows, by id
  follows,       \* table follows: the rows, by id
  notifications, \* table notifications: the rows, by id
  paymentHandles, \* table profiles: userId -> the payment handles of the profile
  stripe,       \* payment provider: checkout session -> state of its payment
  pc,           \* request -> position in its handler
  req,          \* request -> its locals
  memoryState,  \* use-toast: state.toasts, newest first
  timeouts,     \* use-toast: the ids that have an entry in the map `timeouts`
  timers,       \* use-toast: the setTimeout callbacks that have not fired yet
  count         \* use-toast: the counter of genId

vars ==
  <<credits, creditLogs, profiles, posts, applications, bookings,
    verificationRequests, professionalVerifications, follows, notifications,
    paymentHandles, stripe, pc, req, memoryState, timeouts, timers, count>>

\* The server's tables, provider and requests.
server ==
  <<credits, creditLogs, profiles, posts, applications, bookings,
    verificationRequests, professionalVerifications, follows, notifications,
    paymentHandles, stripe, pc, req>>

\* The toast store of the browser.
toastStore == <<memoryState, timeouts, timers, count>>

ledger == <<credits, creditLogs>>

registry ==
  <<verificationRequests, professionalVerifications, follows, notifications,
    paymentHandles, toastStore>>

tables == <<profiles, posts, applications, bookings, registry>>

\* A request slot is at rest before its handler starts and after it has answered.
\* "done": answered 2xx; "rejected": answered 4xx; "failed": an exception (5xx).
Rest == {"idle", "done", "declined", "rejected", "failed"}

IdleReq ==
  [op |-> "none", userId |-> "nobody", amount |-> 0, balance |-> 0,
   action |-> "none", current |-> Undefined, updated |-> Undefined,
   result |-> Undefined, ret |-> "done",
   plan |-> "none", cost |-> 0, body |-> <<>>, input |-> <<>>, entity |-> 0,
   status |-> "none", escrowStatus |-> "none", session |-> Null,
   info |-> NoInfo]

\* The database before any request: no credit rows, no entities.
EmptyDatabase ==
  /\ credits = [u \in Users |-> Undefined]
  /\ creditLogs = [u \in Users |-> <<>>]
  /\ applications = <<>>
  /\ notifications = <<>>
  /\ stripe = [s \in Sessions |-> "none"]
  /\ pc = [p \in Procs |-> "idle"]
  /\ req = [p \in Procs |-> IdleReq]

\* A profile that gives no payment handle.
NoHandles ==
  [cashAppHandle |-> Null, venmoHandle |-> Null, zelleHandle |-> Null,
   paypalHandle |-> Null]

\* use-toast at module load: let count = 0; state = { toasts: [] }; no timers.
NoToasts ==
  /\ memoryState = <<>>
  /\ timeouts = {}
  /\ timers = {}
  /\ count = 0

\* No profile gives a payment handle and the browser shows no toast.
NoHandlesNoToasts ==
  /\ paymentHandles = [u \in Users |-> NoHandles]
  /\ NoToasts

\* The verification and follow tables of the accounts: u1 holds an approved
\* verification request that confirms their age; no licences, no followers.
StandingRecords ==
  /\ verificationRequests =
       <<[userId |-> "u1", status |-> "approved", ageConfirmed |-> TRUE]>>
  /\ professionalVerifications = <<>>
  /\ follows = <<>>
  /\ NoHandlesNoToasts

Init ==
  /\ EmptyDatabase
  /\ StandingRecords
  /\ profiles = [u1 |-> "free", u2 |-> "elite"]
  /\ posts = <<>>
  /\ bookings = <<>>

\* ------------------------------------------------------------ helpers
RECURSIVE SumAmounts(_)
SumAmounts(log) ==
  IF log = <<>> THEN 0 ELSE log[1].amount + SumAmounts(Tail(log))

RECURSIVE TotalLen(_, _)
TotalLen(logs, us) ==
  IF us = {} THEN 0
  ELSE LET u == CHOOSE x \in us : TRUE
       IN Len(logs[u]) + TotalLen(logs, us \ {u})

\* Requests in flight: each may still append one entry to the log.
InFlight == {q \in Procs : pc[q] \notin Rest}

\* Bound of the model: a call starts only while the log table has room for it.
LogRoom == TotalLen(creditLogs, Users) + Cardinality(InFlight) < MaxLog

\* The storage call of request p returns `value` to its caller: the call's own
\* locals (current, updated) go out of scope.
Return(p, value) ==
  /\ pc' = [pc EXCEPT ![p] = req[p].ret]
  /\ req' = [req EXCEPT ![p].current = Undefined, ![p].updated = Undefined,
                        ![p].result = value]

Goto(p, label) == pc' = [pc EXCEPT ![p] = label]

\* ------------------------------------------------------------- ledger
getCredits(userId) == credits[userId]

\* initCredits(userId, balance)
CallInitCredits(p) ==
  \E u \in Users, b \in Amounts \cup {INITIAL_CREDITS} :
    /\ pc[p] \in Rest
    /\ LogRoom
    /\ Goto(p, "init_read")
    /\ req' = [req EXCEPT ![p] =
                 [IdleReq EXCEPT !.op = "initCredits", !.userId = u,
                                 !.balance = b]]
    /\ UNCHANGED <<stripe, ledger, tables>>

InitRead(p) ==
  /\ pc[p] = "init_read"
  /\ LET existing == getCredits(req[p].userId) IN
       IF existing # Undefined
         THEN Return(p, existing)
         ELSE Goto(p, "init_insert") /\ UNCHANGED req
  /\ UNCHANGED <<stripe, ledger, tables>>

\* The insert into a credits table without the UNIQUE constraint on userId.
InitInsertNoUnique(p) ==
  /\ pc[p] = "init_insert"
  /\ credits' = [credits EXCEPT ![req[p].userId] = Row(req[p].balance)]
  /\ req' = [req EXCEPT ![p].updated = Row(req[p].balance)]
  /\ Goto(p, "init_log")
  /\ UNCHANGED <<stripe, creditLogs, tables>>

\* credits.userId is UNIQUE: a second insert for the user throws.
InitInsert(p) ==
  /\ pc[p] = "init_insert"
  /\ IF credits[req[p].userId] # Undefined
       THEN Goto(p, "failed") /\ UNCHANGED <<req, credits>>
       ELSE /\ credits' = [credits EXCEPT ![req[p].userId] = Row(req[p].balance)]
            /\ req' = [req EXCEPT ![p].updated = Row(req[p].balance)]
            /\ Goto(p, "init_log")
  /\ UNCHANGED <<stripe, creditLogs, tables>>

InitLog(p) ==
  /\ pc[p] = "init_log"
  /\ creditLogs' = [creditLogs EXCEPT ![req[p].userId] =
                      Append(@, [action |-> "init", amount |-> req[p].balance])]
  /\ Return(p, req[p].updated)
  /\ UNCHANGED <<stripe, credits, tables>>

\* deductCredits(userId, amount, action, description)
InsufficientNoBalanceCheck(current, amount) == current = Undefined

Insufficient(current, amount) ==
  IF current = Undefined THEN TRUE ELSE Balance(current) < amount

DebitedBalance(current, amount) == Balance(current) - amount

DebitLogAmountUnsigned(amount) == amount

DebitLogAmount(amount) == 0 - amount

CallDeductCredits(p) ==
  \E u \in Users, a \in Amounts :
    /\ pc[p] \in Rest
    /\ LogRoom
    /\ Goto(p, "deduct_read")
    /\ req' = [req EXCEPT ![p] =
                 [IdleReq EXCEPT !.op = "deductCredits", !.userId = u,
                                 !.amount = a, !.action = "debit"]]
    /\ UNCHANGED <<stripe, ledger, tables>>

DeductRead(p) ==
  /\ pc[p] = "deduct_read"
  /\ LET current == getCredits(req[p].userId) IN
       IF Insufficient(current, req[p].amount)
         THEN Return(p, Undefined)
         ELSE /\ Goto(p, "deduct_write")
              /\ req' = [req EXCEPT ![p].current = current]
  /\ UNCHANGED <<stripe, ledger, tables>>

DeductWrite(p) ==
  /\ pc[p] = "deduct_write"
  /\ LET balance == DebitedBalance(req[p].current, req[p].amount) IN
       /\ credits' = [credits EXCEPT ![req[p].userId] = Row(balance)]
       /\ req' = [req EXCEPT ![p].updated = Row(balance)]
  /\ Goto(p, "deduct_log")
  /\ UNCHANGED <<stripe, creditLogs, tables>>

DeductLog(p) ==
  /\ pc[p] = "deduct_log"
  /\ creditLogs' = [creditLogs EXCEPT ![req[p].userId] =
                      Append(@, [action |-> req[p].action,
                                 amount |-> DebitLogAmount(req[p].amount)])]
  /\ Return(p, req[p].updated)
  /\ UNCHANGED <<stripe, credits, tables>>

\* addCredits(userId, amount, action, description)
CreditedBalance(current, amount) == Balance(current) + amount

CallAddCredits(p) ==
  \E u \in Users, a \in Amounts :
    /\ pc[p] \in Rest
    /\ LogRoom
    /\ Goto(p, "add_read")
    /\ req' = [req EXCEPT ![p] =
                 [IdleReq EXCEPT !.op = "addCredits", !.userId = u,
                                 !.amount = a, !.action = "purchase"]]
    /\ UNCHANGED <<stripe, ledger, tables>>

\* addCredits whose first grant is initCredits(userId, INITIAL_CREDITS).
AddReadGrantsInitial(p) ==
  /\ pc[p] = "add_read"
  /\ LET current == getCredits(req[p].userId) IN
       IF current = Undefined
         THEN /\ req' = [req EXCEPT ![p].current = current,
                                    ![p].balance = INITIAL_CREDITS]
              /\ Goto(p, "init_read")
         ELSE /\ req' = [req EXCEPT ![p].current = current]
              /\ Goto(p, "add_write")
  /\ UNCHANGED <<stripe, ledger, tables>>

AddRead(p) ==
  /\ pc[p] = "add_read"
  /\ LET current == getCredits(req[p].userId) IN
       IF current = Undefined
         THEN /\ req' = [req EXCEPT ![p].current = current,
                                    ![p].balance = req[p].amount]
              /\ Goto(p, "init_read")
         ELSE /\ req' = [req EXCEPT ![p].current = current]
              /\ Goto(p, "add_write")
  /\ UNCHANGED <<stripe, ledger, tables>>

AddWrite(p) ==
  /\ pc[p] = "add_write"
  /\ LET balance == CreditedBalance(req[p].current, req[p].amount) IN
       /\ credits' = [credits EXCEPT ![req[p].userId] = Row(balance)]
       /\ req' = [req EXCEPT ![p].updated = Row(balance)]
  /\ Goto(p, "add_log")
  /\ UNCHANGED <<stripe, creditLogs, tables>>

AddLog(p) ==
  /\ pc[p] = "add_log"
  /\ creditLogs' = [creditLogs EXCEPT ![req[p].userId] =
                      Append(@, [action |-> req[p].action,
                                 amount |-> req[p].amount])]
  /\ Return(p, req[p].updated)
  /\ UNCHANGED <<stripe, credits, tables>>

\* ------------------------------------------ POST /api/stripe/fulfill-credits
\* The checkout sessions of credit purchases that the provider holds, as
\* POST /api/stripe/checkout created them (metadata: userId, String(credits))
\* and as their buyers paid them or not.
PurchaseSessionIds == {"cs_paid", "cs_unpaid", "cs_empty", "cs_other"}

retrieveSession(sessionId) ==
  CASE sessionId = "cs_paid" ->
         [payment_status |-> "paid",
          metadata |-> [userId |-> "u1", credits |-> "2"]]
    [] sessionId = "cs_unpaid" ->
         [payment_status |-> "unpaid",
          metadata |-> [userId |-> "u1", credits |-> "2"]]
    [] sessionId = "cs_empty" ->
         [payment_status |-> "paid",
          metadata |-> [userId |-> "u1", credits |-> "0"]]
    [] sessionId = "cs_other" ->
         [payment_status |-> "paid",
          metadata |-> [userId |-> "u2", credits |-> "1"]]

\* parseInt on the decimal strings the sessions carry.
parseInt(digits) ==
  CASE digits = "0" -> 0
    [] digits = "1" -> 1
    [] digits = "2" -> 2

\* POST /api/stripe/fulfill-credits, up to the provider call ("" for a body
\* without sessionId).
CallFulfillCredits(p) ==
  \E caller \in {"anonymous"} \cup Users,
     sessionId \in {""} \cup PurchaseSessionIds :
    /\ pc[p] \in Rest
    /\ LogRoom
    /\ LET r == [IdleReq EXCEPT !.op = "fulfillCredits", !.userId = caller,
                                !.input = [sessionId |-> sessionId]]
       IN IF caller = "anonymous" \/ sessionId = ""
            THEN Goto(p, "rejected") /\ req' = [req EXCEPT ![p] = r]
            ELSE Goto(p, "retrieve_purchase") /\ req' = [req EXCEPT ![p] = r]
    /\ UNCHANGED <<stripe, ledger, tables>>

\* stripe.checkout.sessions.retrieve(sessionId) and the checks on the session;
\* the call may throw (500).
RetrievePurchase(p) ==
  /\ pc[p] = "retrieve_purchase"
  /\ LET session == retrieveSession(req[p].input.sessionId)
         purchased == parseInt(session.metadata.credits)
     IN \/ IF session.payment_status # "paid"
               THEN Goto(p, "rejected") /\ UNCHANGED req
             ELSE IF session.metadata.userId # req[p].userId
               THEN Goto(p, "rejected") /\ UNCHANGED req
             ELSE IF purchased <= 0
               THEN Goto(p, "rejected") /\ UNCHANGED req
             ELSE /\ req' = [req EXCEPT ![p].amount = purchased,
                                        ![p].action = "purchase",
                                        ![p].ret = "fulfill_add"]
                  /\ Goto(p, "ensure_read")
        \/ Goto(p, "failed") /\ UNCHANGED req
  /\ UNCHANGED <<stripe, ledger, tables>>

\* await storage.addCredits(userId, credits, "purchase", ...) after
\* ensureCredits; the handler then answers { success: true, creditsAdded }.
FulfillAdd(p) ==
  /\ pc[p] = "fulfill_add"
  /\ req' = [req EXCEPT ![p].ret = "done", ![p].result = Undefined]
  /\ Goto(p, "add_read")
  /\ UNCHANGED <<stripe, ledger, tables>>

\* ------------------------------------------------- plans and credit costs
Plans == {"free", "pro", "elite"}

\* shared/subscriptions: PLAN_DETAILS[plan].boostsEnabled / .unlimitedPosts
canUseBoosts(plan) == plan \in {"pro", "elite"}

hasUnlimitedPosts(plan) == plan = "elite"

\* shared/credits
getPostCreditCost(tier) ==
  CASE tier = "Slots" -> 1
    [] tier = "Missions" -> 2
    [] tier = "Tasks" -> 3
    [] tier = "Projects" -> 4
    [] tier = "Chances" -> 5
    [] OTHER -> 1

getEventCreditCost(isNsfw) == IF isNsfw THEN 3 ELSE 1

getBoostCreditCost(boost) ==
  CASE boost = "None" -> 0
    [] boost = "24h Boost" -> 2
    [] boost = "72h Boost" -> 4
    [] boost = "7 Day Featured" -> 8
    [] OTHER -> 0

getApplyCreditCost == 1

alwaysAffords(balance, cost, plan) == TRUE

canAfford(balance, cost, plan) == IF plan = "elite" THEN TRUE ELSE balance >= cost

\* shared/schema: the categories of the model.  "Music" is a plain category,
\* "Concert" an event category, two categories are licensed.
NSFW_CATEGORY == "Adult/NSFW"

ALL_EVENT_CATEGORIES == {"Concert", "Adult Club Event"}

LICENSED_CATEGORIES == {"Skilled Trades", "Warehouse & Logistics"}

Categories ==
  {"Music", NSFW_CATEGORY} \cup ALL_EVENT_CATEGORIES \cup LICENSED_CATEGORIES

\* The listings a request may submit.
PostInputs ==
  [postType : {"gig", "event"}, category : Categories, nsfw : BOOLEAN,
   tier : {"Slots", "Missions", "Tasks", "Projects", "Chances", "Unknown"},
   boostLevel : {"None", "24h Boost", "72h Boost", "7 Day Featured", "Unknown"}]

CommonPostInputs ==
  {input \in [postType : {"gig", "event"}, category : {"Music", "Concert"},
              nsfw : {FALSE}, tier : {"Slots", "Missions"},
              boostLevel : {"None", "24h Boost"}] :
     input.category = (IF input.postType = "event" THEN "Concert" ELSE "Music")}

\* ------------------------------------------------ verification records
VerificationStatuses == {"pending", "approved", "rejected"}

getVerificationsByUser(userId) ==
  {i \in DOMAIN verificationRequests : verificationRequests[i].userId = userId}

\* verifications.some(v => v.status === "approved")
isAgeVerifiedByStatusAlone(userId) ==
  \E i \in getVerificationsByUser(userId) :
    verificationRequests[i].status = "approved"

\* verifications.some(v => v.status === "approved" && v.ageConfirmed)
isAgeVerified(userId) ==
  \E i \in getVerificationsByUser(userId) :
    /\ verificationRequests[i].status = "approved"
    /\ verificationRequests[i].ageConfirmed

\* The approved records of the user, whatever their category.
getProfessionalVerificationByUser(userId, category) ==
  {i \in DOMAIN professionalVerifications :
     /\ professionalVerifications[i].userId = userId
     /\ professionalVerifications[i].status = "approved"}

\* The approved records of the user for the category (the handler asks only
\* whether there is one).
getProfessionalVerificationByUserAndCategory(userId, category) ==
  {i \in DOMAIN professionalVerifications :
     /\ professionalVerifications[i].userId = userId
     /\ professionalVerifications[i].category = category
     /\ professionalVerifications[i].status = "approved"}

PaymentStructures == {"full_upfront", "split_50_50"}

\* ------------------------------------------- ensureCredits and the debit
\* ensureCredits(userId): the row, created with INITIAL_CREDITS when absent.
EnsureRead(p) ==
  /\ pc[p] = "ensure_read"
  /\ LET credit == getCredits(req[p].userId) IN
       IF credit = Undefined
         THEN /\ req' = [req EXCEPT ![p].balance = INITIAL_CREDITS]
              /\ Goto(p, "init_read")
         ELSE Return(p, credit)
  /\ UNCHANGED <<stripe, ledger, tables>>

\* A call of ensureCredits(userId) on its own.
CallEnsureCredits(p) ==
  \E u \in Users :
    /\ pc[p] \in Rest
    /\ LogRoom
    /\ Goto(p, "ensure_read")
    /\ req' = [req EXCEPT ![p] =
                 [IdleReq EXCEPT !.op = "ensureCredits", !.userId = u]]
    /\ UNCHANGED <<stripe, ledger, tables>>

\* The step of each creation handler that inserts its entity.
InsertStep(op) ==
  CASE op = "createPost" -> "insert_post"
    [] op = "createApplication" -> "insert_application"
    [] op = "createBooking" -> "insert_booking"

\* if (!canAfford(credit.balance, cost, plan)) return 400; else the debit, whose
\* returned value the handlers do not look at.
Afford(p) ==
  /\ pc[p] = "afford"
  /\ IF ~canAfford(Balance(req[p].result), req[p].cost, req[p].plan)
       THEN Goto(p, "rejected") /\ UNCHANGED req
       ELSE /\ req' = [req EXCEPT ![p].amount = req[p].cost,
                                  ![p].ret = InsertStep(req[p].op)]
            /\ Goto(p, "deduct_read")
  /\ UNCHANGED <<stripe, ledger, tables>>

\* -------------------------------------------------------- POST /api/posts
\* if (input.nsfw || category is Adult/NSFW or Adult Club Event): the age gate.
needsAgeGate(input) ==
  \/ input.nsfw
  \/ input.category = NSFW_CATEGORY
  \/ input.category = "Adult Club Event"

\* The input left as the request submitted it.
asSubmitted(input) == input

\* The input once the handler has passed the age gate: input.nsfw = true for
\* an adult category or a flagged listing.
afterAgeGate(input) ==
  IF needsAgeGate(input) THEN [input EXCEPT !.nsfw = TRUE] ELSE input

isNsfwEvent(input) ==
  /\ input.postType = "event"
  /\ (input.nsfw \/ input.category = "Adult Club Event")

totalCostWithoutBoost(input) ==
  IF input.postType = "event"
    THEN getEventCreditCost(isNsfwEvent(input))
    ELSE getPostCreditCost(input.tier)

totalCost(input) ==
  (IF input.postType = "event"
     THEN getEventCreditCost(isNsfwEvent(input))
     ELSE getPostCreditCost(input.tier))
  + getBoostCreditCost(input.boostLevel)

PostActionLabel(input) ==
  IF input.postType = "event" THEN "create_event" ELSE "create_post"

\* The handler up to ensureCredits, for a request body among `inputs`.
CreatePostFrom(p, inputs) ==
  \E u \in Users, input \in inputs :
    /\ pc[p] = "idle"
    /\ LET plan == profiles[u]
           isEvent == input.postType = "event"
           gated == afterAgeGate(input) IN
         /\ req' = [req EXCEPT ![p] =
                      [IdleReq EXCEPT !.op = "createPost", !.userId = u,
                                      !.plan = plan, !.body = input,
                                      !.input = gated,
                                      !.cost = totalCost(gated),
                                      !.action = PostActionLabel(input),
                                      !.ret = "afford"]]
         /\ IF isEvent /\ input.category \notin ALL_EVENT_CATEGORIES
              THEN Goto(p, "rejected")
            ELSE IF needsAgeGate(input) /\ ~isAgeVerified(u)
              THEN Goto(p, "rejected")
            ELSE IF /\ ~isEvent
                    /\ input.category \in LICENSED_CATEGORIES
                    /\ getProfessionalVerificationByUserAndCategory(
                         u, input.category) = {}
              THEN Goto(p, "rejected")
            ELSE IF input.boostLevel # "None" /\ ~canUseBoosts(plan)
              THEN Goto(p, "rejected")
              ELSE IF ~hasUnlimitedPosts(plan)
                     THEN Goto(p, "ensure_read")
                     ELSE Goto(p, "insert_post")
    /\ UNCHANGED <<stripe, ledger, tables>>

CallCreatePost(p) == CreatePostFrom(p, PostInputs)

\* The row storage.createPost({...input, userId, boostExpiresAt}) inserts.
NewPost(userId, input) ==
  [userId |-> userId, postType |-> input.postType, category |-> input.category,
   tier |-> input.tier, boostLevel |-> input.boostLevel, nsfw |-> input.nsfw]

\* storage.createPost: the insert, which may throw; `post` is the row it returns.
InsertPost(p) ==
  /\ pc[p] = "insert_post"
  /\ \E inserted \in BOOLEAN :
       IF inserted
         THEN /\ posts' = Append(posts, NewPost(req[p].userId, req[p].input))
              /\ req' = [req EXCEPT ![p].entity = Len(posts) + 1,
                                    ![p].result =
                                      <<NewPost(req[p].userId, req[p].input)>>]
              /\ Goto(p, "notify")
         ELSE Goto(p, "failed") /\ UNCHANGED <<posts, req>>
  /\ UNCHANGED <<stripe, ledger, profiles, registry, applications, bookings>>

Reverse(s) == [i \in 1..Len(s) |-> s[Len(s) + 1 - i]]

\* The follows rows of the user's followers, newest first.
getFollowersByUser(followedUserId) ==
  Reverse(SelectSeq(follows, LAMBDA f : f.followedUserId = followedUserId))

\* The notification createNotification inserts for one follower.
NewNotification(follower, postId) ==
  [userId |-> follower.followerUserId, type |-> "new_post", postId |-> postId]

\* The notification loop without its try/catch: a failure fails the request.
NotifyFollowersUncaught(p) ==
  /\ pc[p] = "notify"
  /\ LET followers == getFollowersByUser(req[p].userId) IN
       \E sent \in 0..Len(followers) :
         /\ notifications' =
              notifications \o
                [i \in 1..sent |-> NewNotification(followers[i], req[p].entity)]
         /\ Goto(p, IF sent = Len(followers) THEN "done" ELSE "failed")
  /\ UNCHANGED <<stripe, req, ledger, profiles, posts, applications, bookings,
                 verificationRequests, professionalVerifications, follows,
                 paymentHandles, toastStore>>

\* try { followers = getFollowersByUser; for each: createNotification } catch
\* {log}; res.status(201).json(post).  The read or any insert may throw: the
\* first `sent` followers have their notification, and the handler answers
\* with the post in every case.
NotifyFollowers(p) ==
  /\ pc[p] = "notify"
  /\ LET followers == getFollowersByUser(req[p].userId) IN
       \E sent \in 0..Len(followers) :
         notifications' =
           notifications \o
             [i \in 1..sent |-> NewNotification(followers[i], req[p].entity)]
  /\ Goto(p, "done")
  /\ UNCHANGED <<stripe, req, ledger, profiles, posts, applications, bookings,
                 verificationRequests, professionalVerifications, follows,
                 paymentHandles, toastStore>>

\* --------------------------------------------------------- GET /api/posts
\* The rows getPosts(filters) selects, as their ids: nsfw = false unless
\* filters.includeNsfw, then the postType and category filters.
getPosts(filters) ==
  SelectSeq([i \in DOMAIN posts |-> i],
            LAMBDA i :
              /\ filters.includeNsfw \/ posts[i].nsfw = FALSE
              /\ filters.postType = "all" \/ posts[i].postType = filters.postType
              /\ filters.category = "All" \/ posts[i].category = filters.category)

\* The viewers of the list: no session, or an account.
Viewers == {"anonymous"} \cup Users

isAuthenticated(viewer) == viewer \in Users

\* req.query.includeNsfw as the request carries it (absent: "").
IncludeNsfwParams == {"", "true", "false"}

PostListQueries ==
  [includeNsfw : IncludeNsfwParams, postType : {"all", "event"},
   category : {"All", "Music"}]

\* filters.includeNsfw with the viewer's verification left out.
includeNsfwAsAsked(includeNsfw, isVerified) == includeNsfw

\* filters.includeNsfw: includeNsfw && isVerified
includeNsfwFilter(includeNsfw, isVerified) == includeNsfw /\ isVerified

\* The handler up to its filters: the verification requests are read only for
\* a signed-in viewer who asks for NSFW posts.
CallListPosts(p) ==
  \E viewer \in Viewers, query \in PostListQueries :
    /\ pc[p] = "idle"
    /\ LET includeNsfw == query.includeNsfw = "true"
           isVerified == IF includeNsfw /\ isAuthenticated(viewer)
                           THEN isAgeVerified(viewer) ELSE FALSE IN
         req' = [req EXCEPT ![p] =
                   [IdleReq EXCEPT
                      !.op = "listPosts", !.userId = viewer, !.body = query,
                      !.input = [includeNsfw |->
                                   includeNsfwFilter(includeNsfw, isVerified),
                                 postType |-> query.postType,
                                 category |-> query.category]]]
    /\ Goto(p, "get_posts")
    /\ UNCHANGED <<stripe, ledger, tables>>

\* const posts = await storage.getPosts(filters); res.json(sanitized)
GetPosts(p) ==
  /\ pc[p] = "get_posts"
  /\ req' = [req EXCEPT ![p].result = getPosts(req[p].input)]
  /\ Goto(p, "done")
  /\ UNCHANGED <<stripe, ledger, tables>>

\* ------------------------------------------------- POST /api/applications
CallCreateApplication(p) ==
  \E u \in Users, postId \in 1..(Len(posts) + 1) :
    /\ pc[p] = "idle"
    /\ req' = [req EXCEPT ![p] =
                 [IdleReq EXCEPT !.op = "createApplication", !.userId = u,
                                 !.input = [postId |-> postId],
                                 !.cost = getApplyCreditCost,
                                 !.action = "apply", !.ret = "afford"]]
    /\ Goto(p, "apply_get_post")
    /\ UNCHANGED <<stripe, ledger, tables>>

\* The post lookup of a handler that calls ensureCredits(applicantId) first.
ApplyGetPostAfterEnsure(p) ==
  /\ pc[p] = "apply_get_post"
  /\ IF credits[req[p].userId] = Undefined
       THEN /\ credits' = [credits EXCEPT ![req[p].userId] = Row(INITIAL_CREDITS)]
            /\ creditLogs' = [creditLogs EXCEPT ![req[p].userId] =
                                Append(@, [action |-> "init",
                                           amount |-> INITIAL_CREDITS])]
       ELSE UNCHANGED ledger
  /\ IF req[p].input.postId \notin DOMAIN posts
       THEN Goto(p, "rejected")
       ELSE IF /\ posts[req[p].input.postId].nsfw
               /\ ~isAgeVerified(req[p].userId)
         THEN Goto(p, "rejected")
         ELSE Goto(p, "apply_check")
  /\ UNCHANGED <<stripe, req, tables>>

\* const post = await storage.getPost(input.postId); 404 when there is none.
ApplyGetPost(p) ==
  /\ pc[p] = "apply_get_post"
  /\ IF req[p].input.postId \notin DOMAIN posts
       THEN Goto(p, "rejected")
       ELSE IF /\ posts[req[p].input.postId].nsfw
               /\ ~isAgeVerified(req[p].userId)
         THEN Goto(p, "rejected")
         ELSE Goto(p, "apply_check")
  /\ UNCHANGED <<stripe, req, ledger, tables>>

getApplicationByPostAndApplicant(postId, applicantId) ==
  {i \in DOMAIN applications :
     applications[i].postId = postId /\ applications[i].applicantId = applicantId}

\* The existing-application and own-post checks, then the applicant's plan.
ApplyCheck(p) ==
  /\ pc[p] = "apply_check"
  /\ LET postId == req[p].input.postId
         applicantId == req[p].userId IN
       IF \/ getApplicationByPostAndApplicant(postId, applicantId) # {}
          \/ posts[postId].userId = applicantId
         THEN Goto(p, "rejected") /\ UNCHANGED req
         ELSE /\ req' = [req EXCEPT ![p].plan = profiles[applicantId]]
              /\ Goto(p, "ensure_read")
  /\ UNCHANGED <<stripe, ledger, tables>>

InsertApplication(p) ==
  /\ pc[p] = "insert_application"
  /\ \E inserted \in BOOLEAN :
       IF inserted
         THEN /\ applications' =
                   Append(applications, [postId |-> req[p].input.postId,
                                         applicantId |-> req[p].userId,
                                         status |-> "pending"])
              /\ req' = [req EXCEPT ![p].entity = Len(applications) + 1]
              /\ Goto(p, "done")
         ELSE Goto(p, "failed") /\ UNCHANGED <<applications, req>>
  /\ UNCHANGED <<stripe, ledger, profiles, registry, posts, bookings>>

\* --------------------------------------- POST /api/applications/:id/respond
\* api.applications.respond.input: status is "accepted" or "rejected".
RespondStatuses == {"accepted", "rejected"}

getApplication(id) ==
  IF id \in DOMAIN applications THEN <<applications[id]>> ELSE Undefined

\* The handler up to its write: 404 without the application, 403 unless the
\* caller owns the application's post.
CallRespond(p) ==
  \E caller \in Users, id \in 1..(Len(applications) + 1),
     status \in RespondStatuses :
    /\ pc[p] \in Rest
    /\ req' = [req EXCEPT ![p] =
                 [IdleReq EXCEPT !.op = "respond", !.userId = caller,
                                 !.entity = id, !.status = status]]
    /\ LET application == getApplication(id) IN
         IF application = Undefined
           THEN Goto(p, "rejected")
           ELSE IF \/ application[1].postId \notin DOMAIN posts
                   \/ posts[application[1].postId].userId # caller
                  THEN Goto(p, "rejected")
                  ELSE Goto(p, "update_application")
    /\ UNCHANGED <<stripe, ledger, tables>>

\* storage.updateApplicationStatus(appId, status, posterResponse); res.json(updated)
UpdateApplicationStatus(p) ==
  /\ pc[p] = "update_application"
  /\ LET updated == [applications[req[p].entity] EXCEPT !.status = req[p].status] IN
       /\ applications' = [applications EXCEPT ![req[p].entity] = updated]
       /\ req' = [req EXCEPT ![p].result = <<updated>>]
  /\ Goto(p, "done")
  /\ UNCHANGED <<stripe, ledger, profiles, registry, posts, bookings>>

\* ----------------------------------------------------- POST /api/bookings
\* calculateTotal works in currency units with fractional fees (0.25, 0.5,
\* 2.5); the model carries such a number as its count of hundredths.
TIER_FEES(tier) ==
  CASE tier = "Slots" -> 25
    [] tier = "Missions" -> 50
    [] tier = "Tasks" -> 100
    [] tier = "Projects" -> 200
    [] tier = "Chances" -> 250
    [] OTHER -> 0

BOOST_FEES(boost) ==
  CASE boost = "None" -> 0
    [] boost = "24h Boost" -> 300
    [] boost = "72h Boost" -> 700
    [] boost = "7 Day Featured" -> 1500
    [] OTHER -> 0

\* basePay is the request's number, in currency units.
calculateTotal(basePay, tier, boost) ==
  LET tierFee == TIER_FEES(tier)
      boostFee == BOOST_FEES(boost)
  IN [basePay |-> basePay * 100, tierFee |-> tierFee, boostFee |-> boostFee,
      totalAmount |-> basePay * 100 + tierFee + boostFee]

\* Math.round(x * 100) of a number x carried as hundredths.
RoundTimes100(hundredths) == hundredths

FloorHalf(n) == n \div 2

\* Math.ceil(n / 2)
CeilHalf(n) == (n + 1) \div 2

BasePays == {0, 1, 100}

\* profiles.profileSlug (UNIQUE), by userId.
ProfileSlugs == [u1 |-> "dex-marlo", u2 |-> "nyla-reign"]

\* A slug that names no profile.
MissingSlug == "nobody-here"

\* Bookings of every price that name no worker.
BookingInputs ==
  [basePay : BasePays, tier : {"Slots", "Projects", "Chances", "Unknown"},
   boost : {"None", "24h Boost", "Unknown"},
   paymentStructure : PaymentStructures,
   workerSlug : {Null}]

PlainBookingInput(payStructure) ==
  [basePay |-> 100, tier |-> "Projects", boost |-> "None",
   paymentStructure |-> payStructure, workerSlug |-> Null]

\* Bookings of one price that name a worker, a slug nobody has, or no worker.
WorkerBookingInputs ==
  {[PlainBookingInput("full_upfront") EXCEPT !.workerSlug = w] :
     w \in {Null, Some(MissingSlug)} \cup {Some(ProfileSlugs[u]) : u \in Users}}

\* The row POST /api/bookings inserts.
NewBooking(buyerUid, input) ==
  LET pricing == calculateTotal(input.basePay, input.tier, input.boost)
      totalAmountCents == RoundTimes100(pricing.totalAmount)
      isSplit == input.paymentStructure = "split_50_50"
  IN [workerSlug |-> input.workerSlug,
      buyerUid |-> buyerUid,
      tier |-> input.tier,
      basePay |-> input.basePay,
      platformFee |-> RoundTimes100(pricing.tierFee),
      boost |-> input.boost,
      boostFee |-> RoundTimes100(pricing.boostFee),
      totalAmount |-> totalAmountCents,
      status |-> "pending_payment",
      paymentStructure |-> input.paymentStructure,
      depositAmount |-> IF isSplit THEN Some(CeilHalf(totalAmountCents))
                        ELSE Null,
      finalAmount |-> IF isSplit
                        THEN Some(totalAmountCents - CeilHalf(totalAmountCents))
                        ELSE Null,
      depositStatus |-> IF isSplit THEN "pending" ELSE "null",
      finalStatus |-> IF isSplit THEN "pending" ELSE "null",
      paymentMethod |-> "external",
      stripeSessionId |-> Null,
      stripePaymentIntentId |-> Null,
      escrowStatus |-> "none"]

CreateBookingFrom(p, inputs) ==
  \E u \in Users, input \in inputs :
    /\ pc[p] = "idle"
    /\ LET plan == profiles[u] IN
         /\ req' = [req EXCEPT ![p] =
                      [IdleReq EXCEPT !.op = "createBooking", !.userId = u,
                                      !.plan = plan,
                                      !.input = input,
                                      !.cost = getApplyCreditCost,
                                      !.action = "booking", !.ret = "afford"]]
         /\ IF ~canAfford(0, getApplyCreditCost, plan)
              THEN Goto(p, "ensure_read")
              ELSE Goto(p, "insert_booking")
    /\ UNCHANGED <<stripe, ledger, tables>>

CallCreateBooking(p) == CreateBookingFrom(p, BookingInputs)

InsertBooking(p) ==
  /\ pc[p] = "insert_booking"
  /\ \E inserted \in BOOLEAN :
       IF inserted
         THEN /\ bookings' =
                   Append(bookings, NewBooking(req[p].userId, req[p].input))
              /\ req' = [req EXCEPT ![p].entity = Len(bookings) + 1]
              /\ Goto(p, "done")
         ELSE Goto(p, "failed") /\ UNCHANGED <<bookings, req>>
  /\ UNCHANGED <<stripe, ledger, profiles, registry, posts, applications>>

\* ------------------------------------------------ booking state machine
NumBookings == 1

BookingIds == 1..NumBookings

\* An id that names no booking.
MissingId == NumBookings + 1

\* ADMIN_EMAILS: the account whose e-mail is on the allow-list.
Admins == {"admin"}

Callers == Users \cup Admins

isAdminAnyone(caller) == TRUE

isAdmin(caller) == caller \in Admins

getBooking(id) == IF id \in DOMAIN bookings THEN <<bookings[id]>> ELSE Undefined

\* The parent status updateBookingInstallment derives from the row its UPDATE
\* returned; "none" when no branch applies and no status is written.
DeriveStatusDepositFirst(depositStatus, finalStatus) ==
  IF depositStatus = "paid" THEN "deposit_paid"
  ELSE IF depositStatus = "paid" /\ finalStatus = "paid" THEN "confirmed"
  ELSE IF depositStatus = "submitted" \/ finalStatus = "submitted"
    THEN "payment_submitted"
  ELSE "none"

\* A derivation that sends a booking with a submitted installment back to
\* pending_payment.
DeriveStatusReopening(depositStatus, finalStatus) ==
  IF depositStatus = "paid" /\ finalStatus = "paid" THEN "confirmed"
  ELSE IF depositStatus = "paid" /\ finalStatus = "pending" THEN "deposit_paid"
  ELSE IF depositStatus = "submitted" \/ finalStatus = "submitted"
    THEN "pending_payment"
  ELSE "none"

DeriveStatus(depositStatus, finalStatus) ==
  IF depositStatus = "paid" /\ finalStatus = "paid" THEN "confirmed"
  ELSE IF depositStatus = "paid" /\ finalStatus = "pending" THEN "deposit_paid"
  ELSE IF depositStatus = "submitted" \/ finalStatus = "submitted"
    THEN "payment_submitted"
  ELSE "none"

\* A booking handler answers with the row its last storage call returned.
Respond(p, label, row) ==
  /\ pc' = [pc EXCEPT ![p] = label]
  /\ req' = [req EXCEPT ![p].updated = Undefined, ![p].result = row]

\* updateBookingInstallment: UPDATE ... SET <installment>Status RETURNING, then
\* the derived status from the returned row.
InstallmentWrite(p) ==
  /\ pc[p] = "installment_write"
  /\ LET id == req[p].input.bookingId
         row == IF req[p].input.installment = "deposit"
                  THEN [bookings[id] EXCEPT !.depositStatus = req[p].status]
                  ELSE [bookings[id] EXCEPT !.finalStatus = req[p].status]
         derived == DeriveStatus(row.depositStatus, row.finalStatus)
     IN /\ bookings' = [bookings EXCEPT ![id] = row]
        /\ IF row.paymentStructure = "split_50_50" /\ derived # "none"
             THEN /\ req' = [req EXCEPT ![p].updated = <<row>>,
                                        ![p].status = derived]
                  /\ Goto(p, "status_write")
             ELSE Respond(p, "done", <<row>>)
  /\ UNCHANGED <<stripe, ledger, profiles, registry, posts, applications>>

\* mark-paid, confirm and cancel answer with the row; the escrow handlers
\* with a success message.
Answer(p, row) ==
  IF req[p].op \in {"markPaid", "confirm", "cancel"} THEN <<row>> ELSE Undefined

\* updateBookingStatus: UPDATE ... SET status RETURNING.
StatusWrite(p) ==
  /\ pc[p] = "status_write"
  /\ LET id == req[p].input.bookingId
         row == [bookings[id] EXCEPT !.status = req[p].status]
     IN /\ bookings' = [bookings EXCEPT ![id] = row]
        /\ Respond(p, "done", Answer(p, row))
  /\ UNCHANGED <<stripe, ledger, profiles, registry, posts, applications>>

BookingReq(op, caller, id, installment) ==
  [IdleReq EXCEPT !.op = op, !.userId = caller,
                  !.input = [bookingId |-> id, installment |-> installment]]

Installments == {"deposit", "final"}

\* POST /api/bookings/:id/mark-paid, up to its first write.
CallMarkPaid(p) ==
  \E caller \in Callers, id \in BookingIds \cup {MissingId},
     installment \in Installments \cup {"none"} :
    /\ pc[p] \in Rest
    /\ LET booking == getBooking(id)
           r == BookingReq("markPaid", caller, id, installment)
       IN IF booking = Undefined
            THEN Goto(p, "rejected") /\ req' = [req EXCEPT ![p] = r]
          ELSE IF booking[1].buyerUid # caller
            THEN Goto(p, "rejected") /\ req' = [req EXCEPT ![p] = r]
          ELSE IF booking[1].paymentStructure = "split_50_50"
            THEN IF installment \notin Installments
                   THEN Goto(p, "rejected") /\ req' = [req EXCEPT ![p] = r]
                 ELSE IF installment = "final"
                         /\ booking[1].depositStatus # "paid"
                   THEN Goto(p, "rejected") /\ req' = [req EXCEPT ![p] = r]
                 ELSE /\ Goto(p, "installment_write")
                      /\ req' = [req EXCEPT ![p] =
                                   [r EXCEPT !.status = "submitted"]]
          ELSE /\ Goto(p, "status_write")
               /\ req' = [req EXCEPT ![p] =
                            [r EXCEPT !.status = "payment_submitted"]]
    /\ UNCHANGED <<stripe, ledger, tables>>

\* POST /api/bookings/:id/confirm, up to its first write.
CallConfirm(p) ==
  \E caller \in Callers, id \in BookingIds \cup {MissingId},
     installment \in Installments \cup {"none"} :
    /\ pc[p] \in Rest
    /\ LET booking == getBooking(id)
           r == BookingReq("confirm", caller, id, installment)
       IN IF ~isAdmin(caller)
            THEN Goto(p, "rejected") /\ req' = [req EXCEPT ![p] = r]
          ELSE IF booking = Undefined
            THEN Goto(p, "rejected") /\ req' = [req EXCEPT ![p] = r]
          ELSE IF booking[1].paymentStructure = "split_50_50"
                  /\ installment \in Installments
            THEN /\ Goto(p, "installment_write")
                 /\ req' = [req EXCEPT ![p] = [r EXCEPT !.status = "paid"]]
          ELSE /\ Goto(p, "status_write")
               /\ req' = [req EXCEPT ![p] = [r EXCEPT !.status = "confirmed"]]
    /\ UNCHANGED <<stripe, ledger, tables>>

\* POST /api/bookings/:id/cancel, up to its write.
CallCancel(p) ==
  \E caller \in Callers, id \in BookingIds \cup {MissingId} :
    /\ pc[p] \in Rest
    /\ LET booking == getBooking(id)
           r == BookingReq("cancel", caller, id, "none")
       IN IF booking = Undefined
            THEN Goto(p, "rejected") /\ req' = [req EXCEPT ![p] = r]
          ELSE IF booking[1].buyerUid # caller /\ ~isAdmin(caller)
            THEN Goto(p, "rejected") /\ req' = [req EXCEPT ![p] = r]
          ELSE /\ Goto(p, "status_write")
               /\ req' = [req EXCEPT ![p] = [r EXCEPT !.status = "cancelled"]]
    /\ UNCHANGED <<stripe, ledger, tables>>

\* ---------------------------------------------------------------- escrow
\* updateBookingStripeInfo: UPDATE ... SET <the fields passed> RETURNING.
StripeInfoWrite(p) ==
  /\ pc[p] = "stripe_info_write"
  /\ LET id == req[p].input.bookingId
         info == req[p].info
         old == bookings[id]
         row == [old EXCEPT
                   !.stripeSessionId =
                     IF info.stripeSessionId = Null THEN @ ELSE info.stripeSessionId,
                   !.stripePaymentIntentId =
                     IF info.stripePaymentIntentId = Null
                       THEN @ ELSE info.stripePaymentIntentId,
                   !.paymentMethod =
                     IF info.paymentMethod = "keep" THEN @ ELSE info.paymentMethod,
                   !.status = IF info.status = "keep" THEN @ ELSE info.status]
     IN /\ bookings' = [bookings EXCEPT ![id] = row]
        /\ IF req[p].ret = "done"
             THEN Respond(p, "done", Answer(p, row))
             ELSE Goto(p, req[p].ret) /\ UNCHANGED req
  /\ UNCHANGED <<stripe, ledger, profiles, registry, posts, applications>>

\* updateBookingEscrow: UPDATE ... SET escrowStatus RETURNING; every caller
\* goes on to updateBookingStatus.
EscrowWrite(p) ==
  /\ pc[p] = "escrow_write"
  /\ bookings' = [bookings EXCEPT ![req[p].input.bookingId].escrowStatus =
                                    req[p].escrowStatus]
  /\ Goto(p, "status_write")
  /\ UNCHANGED <<req, stripe, ledger, profiles, registry, posts, applications>>

Reject(p, r) == Goto(p, "rejected") /\ req' = [req EXCEPT ![p] = r]

\* The buyer pays an open checkout session: the provider holds the funds of
\* its payment intent until capture.
PayCheckout ==
  \E s \in Sessions :
    /\ stripe[s] = "open"
    /\ stripe' = [stripe EXCEPT ![s] = "requires_capture"]
    /\ UNCHANGED <<pc, req, ledger, tables>>

AwaitingPaymentAlways(booking) == TRUE

\* booking.status === "pending_payment"
AwaitingPayment(booking) == booking.status = "pending_payment"

\* POST /api/escrow/reserve, up to the provider call.
CallReserve(p) ==
  \E caller \in Callers, id \in BookingIds \cup {MissingId} :
    /\ pc[p] \in Rest
    /\ LET booking == getBooking(id)
           r == BookingReq("reserve", caller, id, "none")
       IN IF booking = Undefined THEN Reject(p, r)
          ELSE IF booking[1].buyerUid # caller THEN Reject(p, r)
          ELSE IF ~AwaitingPayment(booking[1]) THEN Reject(p, r)
          ELSE IF booking[1].escrowStatus = "authorized" THEN Reject(p, r)
          ELSE Goto(p, "reserve_create") /\ req' = [req EXCEPT ![p] = r]
    /\ UNCHANGED <<stripe, ledger, tables>>

\* stripe.checkout.sessions.create: a new session, or an error.
ReserveCreate(p) ==
  /\ pc[p] = "reserve_create"
  /\ \/ \E s \in Sessions :
          /\ stripe[s] = "none"
          /\ stripe' = [stripe EXCEPT ![s] = "open"]
          /\ req' = [req EXCEPT ![p].info =
                       [NoInfo EXCEPT !.stripeSessionId = Some(s),
                                      !.paymentMethod = "escrow"],
                                ![p].ret = "done"]
          /\ Goto(p, "stripe_info_write")
     \/ Goto(p, "failed") /\ UNCHANGED <<req, stripe>>
  /\ UNCHANGED <<ledger, tables>>

\* POST /api/escrow/confirm-reservation, up to the provider calls.
CallConfirmReservation(p) ==
  \E caller \in Callers, id \in BookingIds \cup {MissingId},
     sessionId \in {Null} \cup {Some(s) : s \in Sessions} :
    /\ pc[p] \in Rest
    /\ LET booking == getBooking(id)
           r == BookingReq("confirmReservation", caller, id, "none")
       IN IF booking = Undefined THEN Reject(p, r)
          ELSE IF booking[1].buyerUid # caller THEN Reject(p, r)
          ELSE IF booking[1].escrowStatus = "authorized"
            THEN Goto(p, "done") /\ req' = [req EXCEPT ![p] = r]
          ELSE LET checkoutSessionId ==
                     IF sessionId # Null THEN sessionId
                     ELSE booking[1].stripeSessionId
               IN IF checkoutSessionId = Null THEN Reject(p, r)
                  ELSE /\ Goto(p, "retrieve")
                       /\ req' = [req EXCEPT ![p] =
                                    [r EXCEPT !.session = checkoutSessionId]]
    /\ UNCHANGED <<stripe, ledger, tables>>

ReadyToCaptureOrCaptured(state) == state \in {"requires_capture", "succeeded"}

\* session.payment_status === "paid" with paymentIntent.status ===
\* "requires_capture"
ReadyToCapture(state) == state = "requires_capture"

\* stripe.checkout.sessions.retrieve and stripe.paymentIntents.retrieve.
Retrieve(p) ==
  /\ pc[p] = "retrieve"
  /\ LET s == req[p].session[1] IN
       \/ /\ ReadyToCapture(stripe[s])
          /\ req' = [req EXCEPT ![p].info =
                       [NoInfo EXCEPT !.stripePaymentIntentId = Some(s)],
                                ![p].ret = "escrow_write",
                                ![p].escrowStatus = "authorized",
                                ![p].status = "payment_submitted"]
          /\ Goto(p, "stripe_info_write")
       \/ /\ stripe[s] # "none" /\ ~ReadyToCapture(stripe[s])
          /\ Goto(p, "declined") /\ UNCHANGED req
       \/ Goto(p, "failed") /\ UNCHANGED req
  /\ UNCHANGED <<stripe, ledger, tables>>

\* The checks shared by release and cancel of an escrow.
SettleAllowed(booking, caller) ==
  IF booking = Undefined THEN FALSE
  ELSE IF booking[1].buyerUid # caller /\ ~isAdmin(caller) THEN FALSE
  ELSE IF booking[1].escrowStatus # "authorized" THEN FALSE
  ELSE booking[1].stripePaymentIntentId # Null

\* POST /api/escrow/release, up to the provider call.
CallRelease(p) ==
  \E caller \in Callers, id \in BookingIds \cup {MissingId} :
    /\ pc[p] \in Rest
    /\ LET booking == getBooking(id)
           r == BookingReq("release", caller, id, "none")
       IN IF ~SettleAllowed(booking, caller) THEN Reject(p, r)
          ELSE /\ Goto(p, "settle")
               /\ req' = [req EXCEPT ![p] =
                            [r EXCEPT !.session = booking[1].stripePaymentIntentId,
                                      !.escrowStatus = "captured",
                                      !.status = "confirmed"]]
    /\ UNCHANGED <<stripe, ledger, tables>>

\* POST /api/escrow/cancel, up to the provider call.
CallCancelEscrow(p) ==
  \E caller \in Callers, id \in BookingIds \cup {MissingId} :
    /\ pc[p] \in Rest
    /\ LET booking == getBooking(id)
           r == BookingReq("cancelEscrow", caller, id, "none")
       IN IF ~SettleAllowed(booking, caller) THEN Reject(p, r)
          ELSE /\ Goto(p, "settle")
               /\ req' = [req EXCEPT ![p] =
                            [r EXCEPT !.session = booking[1].stripePaymentIntentId,
                                      !.escrowStatus = "cancelled",
                                      !.status = "cancelled"]]
    /\ UNCHANGED <<stripe, ledger, tables>>

\* stripe.paymentIntents.capture / cancel: the intent is settled, or an error
\* (always an error when the intent is not awaiting capture).
Settle(p) ==
  /\ pc[p] = "settle"
  /\ LET s == req[p].session[1] IN
       \/ /\ stripe[s] = "requires_capture"
          /\ stripe' = [stripe EXCEPT ![s] =
                          IF req[p].op = "release" THEN "succeeded" ELSE "canceled"]
          /\ Goto(p, "escrow_write")
       \/ Goto(p, "failed") /\ UNCHANGED stripe
  /\ UNCHANGED <<req, ledger, tables>>

\* ------------------------------------------------ profiles and payment info
\* The Cash App handle each worker gives when they give one.
CashTags == [u1 |-> "$dex", u2 |-> "$nyla"]

\* profiles.cash_app_handle is a nullable text column.
HandleValues(userId) == {Null, Some(CashTags[userId])}

\* The row of the profile of userId.
Profile(userId) ==
  [userId |-> userId,
   profileSlug |-> ProfileSlugs[userId],
   plan |-> profiles[userId],
   cashAppHandle |-> paymentHandles[userId].cashAppHandle,
   venmoHandle |-> paymentHandles[userId].venmoHandle,
   zelleHandle |-> paymentHandles[userId].zelleHandle,
   paypalHandle |-> paymentHandles[userId].paypalHandle]

getProfileBySlug(slug) ==
  LET owners == {u \in Users : ProfileSlugs[u] = slug}
  IN IF owners = {} THEN Undefined
     ELSE <<Profile(CHOOSE u \in owners : TRUE)>>

\* The profile as the table holds it.
asStored(profile) == profile

\* { ...p, cashAppHandle: undefined, venmoHandle: undefined, zelleHandle:
\* undefined, paypalHandle: undefined }
sanitized(profile) ==
  [profile EXCEPT !.cashAppHandle = Undefined, !.venmoHandle = Undefined,
                  !.zelleHandle = Undefined, !.paypalHandle = Undefined]

\* Who can send a request: no session, an account, or the admin's account.
Clients == {"anonymous"} \cup Callers

\* GET /api/bookings/:id/payment-info, up to the read of the worker's profile.
CallPaymentInfo(p) ==
  \E caller \in Clients, id \in 1..(Len(bookings) + 1) :
    /\ pc[p] \in Rest
    /\ LET booking == getBooking(id)
           r == [IdleReq EXCEPT !.op = "paymentInfo", !.userId = caller,
                                !.input = [bookingId |-> id]]
       IN IF caller = "anonymous" THEN Reject(p, r)
          ELSE IF booking = Undefined THEN Reject(p, r)
          ELSE IF booking[1].buyerUid # caller /\ ~isAdmin(caller)
            THEN Reject(p, r)
          ELSE IF booking[1].workerSlug = Null
            THEN /\ Goto(p, "done")
                 /\ req' = [req EXCEPT ![p] =
                              [r EXCEPT !.result = <<[cashAppHandle |-> Null]>>]]
          ELSE /\ Goto(p, "worker_profile")
               /\ req' = [req EXCEPT ![p] =
                            [r EXCEPT !.input =
                               [bookingId |-> id,
                                workerSlug |-> booking[1].workerSlug[1]]]]
    /\ UNCHANGED <<stripe, ledger, tables>>

\* getProfileBySlug(booking.workerSlug) and the answer.
WorkerProfile(p) ==
  /\ pc[p] = "worker_profile"
  /\ LET workerProfile == getProfileBySlug(req[p].input.workerSlug)
         handle == IF workerProfile = Undefined THEN Null
                   ELSE workerProfile[1].cashAppHandle
     IN req' = [req EXCEPT ![p].result = <<[cashAppHandle |-> handle]>>]
  /\ Goto(p, "done")
  /\ UNCHANGED <<stripe, ledger, tables>>

\* GET /api/profiles.  The filters that getProfiles applies (category,
\* visibility, nsfw) are left open: the rows it returns are those of any set
\* of users, none when the viewer is blocked; the answer maps them one by one.
CallListProfiles(p) ==
  \E viewer \in Clients, shown \in SUBSET Users :
    /\ pc[p] \in Rest
    /\ req' = [req EXCEPT ![p] =
                 [IdleReq EXCEPT
                    !.op = "listProfiles", !.userId = viewer,
                    !.result = <<[profiles |->
                                    {sanitized(Profile(u)) : u \in shown}]>>]]
    /\ Goto(p, "done")
    /\ UNCHANGED <<stripe, ledger, tables>>

\* GET /api/profiles/:slug.  profile.visibility is left open: a category_only
\* profile is refused to a viewer who cannot view it.
CallGetProfile(p) ==
  \E viewer \in Clients, canView \in BOOLEAN,
     slug \in {MissingSlug} \cup {ProfileSlugs[u] : u \in Users} :
    /\ pc[p] \in Rest
    /\ LET profile == getProfileBySlug(slug)
           r == [IdleReq EXCEPT !.op = "getProfile", !.userId = viewer,
                                !.input = [slug |-> slug]]
       IN IF profile = Undefined THEN Reject(p, r)
          ELSE IF ~canView /\ viewer # profile[1].userId THEN Reject(p, r)
          ELSE /\ Goto(p, "done")
               /\ req' = [req EXCEPT ![p] =
                            [r EXCEPT !.result = <<sanitized(profile[1])>>]]
    /\ UNCHANGED <<stripe, ledger, tables>>

\* POST /api/profiles of a user who has a profile, up to updateProfile.
CallSaveProfile(p) ==
  \E userId \in Users : \E handle \in HandleValues(userId) :
    /\ pc[p] \in Rest
    /\ req' = [req EXCEPT ![p] =
                 [IdleReq EXCEPT !.op = "saveProfile", !.userId = userId,
                                 !.input = [cashAppHandle |-> handle]]]
    /\ Goto(p, "update_profile")
    /\ UNCHANGED <<stripe, ledger, tables>>

\* updateProfile: UPDATE profiles SET ... WHERE user_id = userId RETURNING.
UpdateProfile(p) ==
  /\ pc[p] = "update_profile"
  /\ LET userId == req[p].userId
         row == [Profile(userId) EXCEPT
                   !.cashAppHandle = req[p].input.cashAppHandle]
     IN /\ paymentHandles' =
             [paymentHandles EXCEPT ![userId].cashAppHandle = row.cashAppHandle]
        /\ req' = [req EXCEPT ![p].result = <<row>>]
  /\ Goto(p, "done")
  /\ UNCHANGED <<stripe, ledger, profiles, posts, applications, bookings,
                 verificationRequests, professionalVerifications, follows,
                 notifications, toastStore>>

\* -------------------------------------------------------- stripe connect
\* POST /api/stripe/connect/checkout, up to the read of the worker's profile.
CallConnectCheckout(p) ==
  \E caller \in Callers, id \in BookingIds \cup {MissingId} :
    /\ pc[p] \in Rest
    /\ LET booking == getBooking(id)
           r == BookingReq("connectCheckout", caller, id, "none")
       IN IF booking = Undefined THEN Reject(p, r)
          ELSE IF booking[1].buyerUid # caller THEN Reject(p, r)
          ELSE IF ~AwaitingPayment(booking[1]) THEN Reject(p, r)
          ELSE /\ Goto(p, "connect_account")
               /\ req' = [req EXCEPT ![p] =
                            [r EXCEPT !.input =
                               [bookingId |-> id, installment |-> "none",
                                workerSlug |-> booking[1].workerSlug]]]
    /\ UNCHANGED <<stripe, ledger, tables>>

\* getProfileBySlug(booking.workerSlug) and stripe.accounts.retrieve: refused
\* unless the worker has a connected account with charges enabled
\* (profiles.stripeAccountId and the account are left open); the provider call
\* may throw.
ConnectAccount(p) ==
  /\ pc[p] = "connect_account"
  /\ LET workerSlug == req[p].input.workerSlug
         workerProfile == IF workerSlug = Null THEN Undefined
                          ELSE getProfileBySlug(workerSlug[1])
     IN \E connected \in BOOLEAN :
          \/ IF workerProfile = Undefined \/ ~connected
               THEN Goto(p, "rejected")
               ELSE Goto(p, "connect_create")
          \/ Goto(p, "failed")
  /\ UNCHANGED <<req, stripe, ledger, tables>>

\* stripe.checkout.sessions.create (captured on payment): a new session, or an
\* error.
ConnectCreate(p) ==
  /\ pc[p] = "connect_create"
  /\ \/ \E s \in Sessions :
          /\ stripe[s] = "none"
          /\ stripe' = [stripe EXCEPT ![s] = "open_connect"]
          /\ req' = [req EXCEPT ![p].info =
                       [NoInfo EXCEPT !.stripeSessionId = Some(s),
                                      !.paymentMethod = "stripe"],
                                ![p].ret = "done"]
          /\ Goto(p, "stripe_info_write")
     \/ Goto(p, "failed") /\ UNCHANGED <<req, stripe>>
  /\ UNCHANGED <<ledger, tables>>

\* The buyer pays an open connect checkout session: the payment is captured.
PayConnect ==
  \E s \in Sessions :
    /\ stripe[s] = "open_connect"
    /\ stripe' = [stripe EXCEPT ![s] = "succeeded"]
    /\ UNCHANGED <<pc, req, ledger, tables>>

\* session.payment_status === "paid"
Paid(state) == state \in {"requires_capture", "succeeded"}

\* POST /api/stripe/connect/fulfill, up to the provider call.
CallConnectFulfill(p) ==
  \E caller \in Clients, id \in BookingIds \cup {MissingId} :
    /\ pc[p] \in Rest
    /\ LET booking == getBooking(id)
           r == BookingReq("connectFulfill", caller, id, "none")
       IN IF caller = "anonymous" THEN Reject(p, r)
          ELSE IF booking = Undefined THEN Reject(p, r)
          ELSE IF booking[1].paymentMethod # "stripe"
                  \/ booking[1].stripeSessionId = Null
            THEN Reject(p, r)
          ELSE IF booking[1].status = "confirmed"
            THEN Goto(p, "done") /\ req' = [req EXCEPT ![p] = r]
          ELSE /\ Goto(p, "connect_retrieve")
               /\ req' = [req EXCEPT ![p] =
                            [r EXCEPT !.session = booking[1].stripeSessionId]]
    /\ UNCHANGED <<stripe, ledger, tables>>

\* stripe.checkout.sessions.retrieve(booking.stripeSessionId): paid, not yet
\* paid, or an error.
ConnectRetrieve(p) ==
  /\ pc[p] = "connect_retrieve"
  /\ LET s == req[p].session[1] IN
       \/ /\ Paid(stripe[s])
          /\ req' = [req EXCEPT ![p].info =
                       [NoInfo EXCEPT !.status = "confirmed",
                                      !.stripePaymentIntentId = Some(s)],
                                ![p].ret = "done"]
          /\ Goto(p, "stripe_info_write")
       \/ /\ ~Paid(stripe[s])
          /\ Goto(p, "declined") /\ UNCHANGED req
       \/ Goto(p, "failed") /\ UNCHANGED req
  /\ UNCHANGED <<stripe, ledger, tables>>

\* ------------------------------------------------- requests with no session
RequestOps ==
  {"createPost", "createApplication", "createBooking", "markPaid", "confirm",
   "cancel", "reserve", "confirmReservation", "release", "cancelEscrow"}

\* if (!req.isAuthenticated()) return res.status(401): the first statement of
\* each of these handlers.
CallUnauthenticated(p) ==
  \E op \in RequestOps :
    /\ pc[p] \in Rest
    /\ req' = [req EXCEPT ![p] =
                 [IdleReq EXCEPT !.op = op, !.userId = "anonymous"]]
    /\ Goto(p, "rejected")
    /\ UNCHANGED <<stripe, ledger, tables>>

\* ------------------------------------------------------- toast store
\* client/src/hooks/use-toast.ts
TOAST_LIMIT == 1

\* Bound of the model: the toasts shown in one run.
MaxToasts == 3

\* input.duration: 0 for a toast that stays, or the default of 3000 ms.
Durations == {0, 3000}

\* The ids genId has handed out.
IssuedIds == {ToString(n) : n \in 1..count}

\* The first n elements of a list: Array.prototype.slice(0, n).
Slice(list, n) == SubSeq(list, 1, IF Len(list) < n THEN Len(list) ELSE n)

\* toasts.filter((t) => t.id !== toastId)
RECURSIVE Without(_, _)
Without(list, toastId) ==
  IF list = <<>> THEN <<>>
  ELSE IF Head(list).id = toastId THEN Without(Tail(list), toastId)
  ELSE <<Head(list)>> \o Without(Tail(list), toastId)

ToastIds(list) == {list[i].id : i \in DOMAIN list}

\* dispatch ADD_TOAST: state = { toasts: [toast, ...toasts].slice(0, TOAST_LIMIT) }
addToast(list, toast) == Slice(<<toast>> \o list, TOAST_LIMIT)

\* dispatch DISMISS_TOAST for the ids given, `pending` being the timers that
\* have not fired: an id that has an entry in `timeouts` is skipped, every
\* other id gets a timer that will dispatch REMOVE_TOAST and its entry.
DismissToast(ids, pending) ==
  LET fresh == ids \ timeouts IN
    /\ timers' = pending \cup {[kind |-> "remove", toastId |-> id] : id \in fresh}
    /\ timeouts' = timeouts \cup fresh

\* toast(input): a new id, ADD_TOAST, and for a positive duration the timer
\* that will dispatch DISMISS_TOAST, recorded in `timeouts` under the id.
Toast ==
  \E duration \in Durations :
    /\ count < MaxToasts
    /\ count' = count + 1
    /\ LET id == ToString(count + 1) IN
         /\ memoryState' =
              addToast(memoryState, [id |-> id, duration |-> duration])
         /\ IF duration > 0
              THEN /\ timers' =
                        {t \in timers : ~(id \in timeouts /\ t.toastId = id)}
                          \cup {[kind |-> "dismiss", toastId |-> id]}
                   /\ timeouts' = timeouts \cup {id}
              ELSE UNCHANGED <<timers, timeouts>>
    /\ UNCHANGED server

\* The dismiss of a toast's handle, or useToast().dismiss(toastId): all the
\* toasts of the list when no id is given ("").
Dismiss ==
  \E toastId \in {""} \cup IssuedIds :
    /\ DismissToast(IF toastId = "" THEN ToastIds(memoryState) ELSE {toastId},
                    timers)
    /\ UNCHANGED <<memoryState, count, server>>

\* The update of a toast's handle: nothing when the toast is no longer in the
\* list, else ADD_TOAST of the toast with the new fields.
Update ==
  \E toastId \in IssuedIds, duration \in Durations :
    /\ toastId \in ToastIds(memoryState)
    /\ memoryState' =
         addToast(memoryState, [id |-> toastId, duration |-> duration])
    /\ UNCHANGED <<timeouts, timers, count, server>>

\* A setTimeout callback runs: DISMISS_TOAST for the toast's duration timer,
\* REMOVE_TOAST for the timer a dismissal scheduled.
FireTimer ==
  \E t \in timers :
    /\ IF t.kind = "dismiss"
         THEN /\ DismissToast({t.toastId}, timers \ {t})
              /\ UNCHANGED memoryState
         ELSE /\ memoryState' = Without(memoryState, t.toastId)
              /\ timers' = timers \ {t}
              /\ UNCHANGED timeouts
    /\ UNCHANGED <<count, server>>

\* ----------------------------------------------------- specifications
NextLedger ==
  \E p \in Procs :
    \/ CallInitCredits(p)
    \/ InitRead(p)
    \/ InitInsert(p)
    \/ InitLog(p)
    \/ CallDeductCredits(p)
    \/ DeductRead(p)
    \/ DeductWrite(p)
    \/ DeductLog(p)
    \/ CallAddCredits(p)
    \/ AddRead(p)
    \/ AddWrite(p)
    \/ AddLog(p)

Quiescent == \A p \in Procs : pc[p] \in Rest

\* A call starts only when no other is in flight: the calls run one after another.
NextLedgerSerial ==
  \E p \in Procs :
    \/ Quiescent /\ CallInitCredits(p)
    \/ InitRead(p)
    \/ InitInsert(p)
    \/ InitLog(p)
    \/ Quiescent /\ CallDeductCredits(p)
    \/ DeductRead(p)
    \/ DeductWrite(p)
    \/ DeductLog(p)
    \/ Quiescent /\ CallAddCredits(p)
    \/ AddRead(p)
    \/ AddWrite(p)
    \/ AddLog(p)

SpecLedgerSerial == Init /\ [][NextLedgerSerial]_vars

SpecLedger == Init /\ [][NextLedger]_vars

\* Calls of initCredits and ensureCredits, in any interleaving.
NextGrant ==
  \E p \in Procs :
    \/ CallInitCredits(p)
    \/ CallEnsureCredits(p)
    \/ EnsureRead(p)
    \/ InitRead(p)
    \/ InitInsert(p)
    \/ InitLog(p)

SpecGrant == Init /\ [][NextGrant]_vars

\* The creation handlers, each request slot serving one request.  One listing
\* of the elite account exists, so that applications have a post to name.
InitCreate ==
  /\ EmptyDatabase
  /\ StandingRecords
  /\ profiles \in {[u1 |-> "free", u2 |-> "elite"], [u1 |-> "pro", u2 |-> "elite"]}
  /\ posts = <<[userId |-> "u2", postType |-> "gig", category |-> "Music",
                tier |-> "Slots", boostLevel |-> "None", nsfw |-> FALSE]>>
  /\ bookings = <<>>

NextCreate ==
  \E p \in Procs :
    \/ CreatePostFrom(p, CommonPostInputs)
    \/ CallCreateApplication(p)
    \/ CallCreateBooking(p)
         /\ req'[p].input \in {PlainBookingInput(s) : s \in PaymentStructures}
    \/ ApplyGetPost(p)
    \/ ApplyCheck(p)
    \/ EnsureRead(p)
    \/ InitRead(p)
    \/ InitInsert(p)
    \/ InitLog(p)
    \/ Afford(p)
    \/ DeductRead(p)
    \/ DeductWrite(p)
    \/ DeductLog(p)
    \/ InsertPost(p)
    \/ NotifyFollowers(p)
    \/ InsertApplication(p)
    \/ InsertBooking(p)

SpecCreate == InitCreate /\ [][NextCreate]_vars

\* The ledger of an account that was granted its initial credits and has
\* spent all of them, or all but one, on listings.
SpentLedger(u, left) ==
  /\ credits = [v \in Users |-> IF v = u THEN Row(left) ELSE Undefined]
  /\ creditLogs =
       [v \in Users |->
          IF v = u
            THEN <<[action |-> "init", amount |-> INITIAL_CREDITS],
                   [action |-> "create_post", amount |-> left - INITIAL_CREDITS]>>
            ELSE <<>>]

\* The creation handlers, each request slot serving one request, for a paying
\* account that has no credit left, or one.
InitGate ==
  /\ StandingRecords
  /\ \E left \in {0, 1} : SpentLedger("u1", left)
  /\ applications = <<>>
  /\ notifications = <<>>
  /\ stripe = [s \in Sessions |-> "none"]
  /\ pc = [p \in Procs |-> "idle"]
  /\ req = [p \in Procs |-> IdleReq]
  /\ profiles \in {[u1 |-> "free", u2 |-> "elite"], [u1 |-> "pro", u2 |-> "elite"]}
  /\ posts = <<[userId |-> "u2", postType |-> "gig", category |-> "Music",
                tier |-> "Slots", boostLevel |-> "None", nsfw |-> FALSE],
               [userId |-> "u1", postType |-> "gig", category |-> "Music",
                tier |-> "Missions", boostLevel |-> "None", nsfw |-> FALSE]>>
  /\ bookings = <<>>

NextGate ==
  \E p \in Procs :
    \/ CreatePostFrom(p, CommonPostInputs)
    \/ CallCreateApplication(p)
    \/ CreateBookingFrom(p, {PlainBookingInput(s) : s \in PaymentStructures})
    \/ ApplyGetPost(p)
    \/ ApplyCheck(p)
    \/ EnsureRead(p)
    \/ InitRead(p)
    \/ InitInsert(p)
    \/ InitLog(p)
    \/ Afford(p)
    \/ DeductRead(p)
    \/ DeductWrite(p)
    \/ DeductLog(p)
    \/ InsertPost(p)
    \/ NotifyFollowers(p)
    \/ InsertApplication(p)
    \/ InsertBooking(p)

SpecGate == InitGate /\ [][NextGate]_vars

\* One POST /api/posts over the range of inputs, the paying account holding
\* its opening grant and a purchase.
OpeningBalance == 13

UnfundedPost ==
  /\ EmptyDatabase
  /\ StandingRecords
  /\ profiles \in {[u1 |-> "free", u2 |-> "elite"], [u1 |-> "pro", u2 |-> "elite"]}
  /\ posts = <<>>
  /\ bookings = <<>>

FundedPost ==
  /\ StandingRecords
  /\ notifications = <<>>
  /\ stripe = [s \in Sessions |-> "none"]
  /\ pc = [p \in Procs |-> "idle"]
  /\ req = [p \in Procs |-> IdleReq]
  /\ applications = <<>>
  /\ posts = <<>>
  /\ bookings = <<>>
  /\ profiles \in {[u1 |-> "free", u2 |-> "elite"], [u1 |-> "pro", u2 |-> "elite"]}
  /\ credits = [u \in Users |-> IF u = "u1" THEN Row(OpeningBalance) ELSE Undefined]
  /\ creditLogs =
       [u \in Users |->
          IF u = "u1"
            THEN <<[action |-> "init", amount |-> INITIAL_CREDITS],
                   [action |-> "purchase",
                    amount |-> OpeningBalance - INITIAL_CREDITS]>>
            ELSE <<>>]

\* The listings whose category needs no licence.
PricedPostInputs ==
  {input \in PostInputs : input.category \in {"Music", "Concert", "Adult Club Event"}}

NextPost ==
  LET p == 1 IN
    \/ CreatePostFrom(p, PricedPostInputs)
    \/ EnsureRead(p)
    \/ InitRead(p)
    \/ InitInsert(p)
    \/ InitLog(p)
    \/ Afford(p)
    \/ DeductRead(p)
    \/ DeductWrite(p)
    \/ DeductLog(p)
    \/ InsertPost(p)
    \/ NotifyFollowers(p)

InitPost == UnfundedPost \/ FundedPost

SpecPost == InitPost /\ [][NextPost]_vars

\* One POST /api/posts over the categories, the verification records and the
\* followers of the accounts.
VerificationTables ==
  {<<>>} \cup {<<r>> : r \in [userId : Users, status : VerificationStatuses,
                              ageConfirmed : BOOLEAN]}

LicenceTables ==
  {<<>>} \cup {<<r>> : r \in [userId : Users, category : LICENSED_CATEGORIES,
                              status : VerificationStatuses]}

FollowTables ==
  {<<>>,
   <<[followerUserId |-> "u2", followedUserId |-> "u1"]>>,
   <<[followerUserId |-> "u2", followedUserId |-> "u1"],
     [followerUserId |-> "u3", followedUserId |-> "u1"]>>}

ListingInputs ==
  {input \in PostInputs : input.tier = "Slots" /\ input.boostLevel = "None"}

InitListing ==
  /\ EmptyDatabase
  /\ profiles = [u1 |-> "free", u2 |-> "elite"]
  /\ posts = <<>>
  /\ bookings = <<>>
  /\ verificationRequests \in VerificationTables
  /\ professionalVerifications \in LicenceTables
  /\ follows \in FollowTables
  /\ NoHandlesNoToasts

NextListing ==
  LET p == 1 IN
    \/ CreatePostFrom(p, ListingInputs)
    \/ EnsureRead(p)
    \/ InitRead(p)
    \/ InitInsert(p)
    \/ InitLog(p)
    \/ Afford(p)
    \/ DeductRead(p)
    \/ DeductWrite(p)
    \/ DeductLog(p)
    \/ InsertPost(p)
    \/ NotifyFollowers(p)

SpecListing == InitListing /\ [][NextListing]_vars

\* GET /api/posts over two stored listings of the elite account, which
\* POST /api/posts may have created while that account was age-verified.
StoredPosts ==
  {NewPost("u2", afterAgeGate(input)) :
     input \in {i \in ListingInputs :
                  \/ i.postType = "gig" /\ i.category = "Music"
                  \/ i.postType = "event" /\ i.category \in ALL_EVENT_CATEGORIES}}

InitList ==
  /\ EmptyDatabase
  /\ profiles = [u1 |-> "free", u2 |-> "elite"]
  /\ posts \in [1..2 -> StoredPosts]
  /\ bookings = <<>>
  /\ verificationRequests \in
       {<<[userId |-> "u1", status |-> "approved", ageConfirmed |-> TRUE]>>,
        <<[userId |-> "u1", status |-> "approved", ageConfirmed |-> FALSE]>>,
        <<[userId |-> "u1", status |-> "pending", ageConfirmed |-> TRUE]>>}
  /\ professionalVerifications = <<>>
  /\ follows = <<>>
  /\ NoHandlesNoToasts

NextList ==
  \E p \in Procs :
    \/ CallListPosts(p)
    \/ GetPosts(p)

SpecList == InitList /\ [][NextList]_vars

\* The respond handler over a post of each account and a pending application
\* of the other account to each.
InitRespond ==
  /\ StandingRecords
  /\ credits = [u \in Users |-> Undefined]
  /\ creditLogs = [u \in Users |-> <<>>]
  /\ notifications = <<>>
  /\ stripe = [s \in Sessions |-> "none"]
  /\ pc = [p \in Procs |-> "idle"]
  /\ req = [p \in Procs |-> IdleReq]
  /\ profiles = [u1 |-> "elite", u2 |-> "elite"]
  /\ posts = <<NewPost("u2", CHOOSE input \in CommonPostInputs :
                               input.postType = "gig" /\ input.tier = "Slots"
                               /\ input.boostLevel = "None"),
               NewPost("u1", CHOOSE input \in CommonPostInputs :
                               input.postType = "gig" /\ input.tier = "Slots"
                               /\ input.boostLevel = "None")>>
  /\ applications = <<[postId |-> 1, applicantId |-> "u1", status |-> "pending"],
                      [postId |-> 2, applicantId |-> "u2", status |-> "pending"]>>
  /\ bookings = <<>>

NextRespond ==
  \E p \in Procs :
    \/ CallRespond(p)
    \/ UpdateApplicationStatus(p)

SpecRespond == InitRespond /\ [][NextRespond]_vars

\* The listing, application, booking and escrow handlers over one listing and
\* one booking, each request slot serving one request.
\* The booking once its buyer has reserved the escrow on checkout session 1
\* and confirm-reservation has recorded the authorization.
ReservedBooking(booking) ==
  [booking EXCEPT !.stripeSessionId = Some(1), !.stripePaymentIntentId = Some(1),
                  !.paymentMethod = "escrow", !.escrowStatus = "authorized",
                  !.status = "payment_submitted"]

\* Listings the handler accepts or refuses: the common ones, a licensed and an
\* adult category, and an event outside the event categories.
SampleListingInputs ==
  CommonPostInputs \cup
    {input \in ListingInputs :
       /\ ~input.nsfw
       /\ \/ input.postType = "gig"
             /\ input.category \in {"Skilled Trades", "Adult/NSFW"}
          \/ input.postType = "event" /\ input.category = "Music"}

InitRequests ==
  /\ StandingRecords
  /\ credits = [u \in Users |-> Undefined]
  /\ creditLogs = [u \in Users |-> <<>>]
  /\ applications = <<>>
  /\ notifications = <<>>
  /\ pc = [p \in Procs |-> "idle"]
  /\ req = [p \in Procs |-> IdleReq]
  /\ profiles = [u1 |-> "free", u2 |-> "elite"]
  /\ posts = <<[userId |-> "u2", postType |-> "gig", category |-> "Music",
                tier |-> "Slots", boostLevel |-> "None", nsfw |-> FALSE]>>
  /\ \E s \in PaymentStructures :
       \/ /\ bookings = [id \in BookingIds |-> NewBooking("u1", PlainBookingInput(s))]
          /\ stripe = [n \in Sessions |-> "none"]
       \/ /\ bookings = [id \in BookingIds |->
                            ReservedBooking(NewBooking("u1", PlainBookingInput(s)))]
          /\ stripe = [n \in Sessions |-> "requires_capture"]

NextRequests ==
  \E p \in Procs :
    \/ pc[p] = "idle" /\ CallUnauthenticated(p)
    \/ CreatePostFrom(p, SampleListingInputs)
    \/ CallCreateApplication(p)
    \/ CallCreateBooking(p)
         /\ req'[p].input \in {PlainBookingInput(s) : s \in PaymentStructures}
    \/ ApplyGetPost(p)
    \/ ApplyCheck(p)
    \/ EnsureRead(p)
    \/ InitRead(p)
    \/ InitInsert(p)
    \/ InitLog(p)
    \/ Afford(p)
    \/ DeductRead(p)
    \/ DeductWrite(p)
    \/ DeductLog(p)
    \/ InsertPost(p)
    \/ NotifyFollowers(p)
    \/ InsertApplication(p)
    \/ InsertBooking(p)
    \/ pc[p] = "idle" /\ CallMarkPaid(p)
    \/ pc[p] = "idle" /\ CallConfirm(p)
    \/ pc[p] = "idle" /\ CallCancel(p)
    \/ InstallmentWrite(p)
    \/ StatusWrite(p)
    \/ PayCheckout
    \/ pc[p] = "idle" /\ CallReserve(p)
    \/ ReserveCreate(p)
    \/ pc[p] = "idle" /\ CallConfirmReservation(p)
    \/ Retrieve(p)
    \/ pc[p] = "idle" /\ CallRelease(p)
    \/ pc[p] = "idle" /\ CallCancelEscrow(p)
    \/ Settle(p)
    \/ StripeInfoWrite(p)
    \/ EscrowWrite(p)

SpecRequests == InitRequests /\ [][NextRequests]_vars

\* POST /api/bookings over the range of inputs, by accounts the handler does
\* not charge.
InitPricing ==
  /\ EmptyDatabase
  /\ StandingRecords
  /\ profiles = [u1 |-> "elite", u2 |-> "elite"]
  /\ posts = <<>>
  /\ bookings = <<>>

NextPricing ==
  \E p \in Procs :
    \/ CallCreateBooking(p)
    \/ InsertBooking(p)

SpecPricing == InitPricing /\ [][NextPricing]_vars

\* The booking handlers over bookings as POST /api/bookings created them.
InitBooking ==
  /\ EmptyDatabase
  /\ StandingRecords
  /\ profiles = [u1 |-> "free", u2 |-> "elite"]
  /\ posts = <<>>
  /\ bookings \in [BookingIds -> {NewBooking("u1", PlainBookingInput(s)) :
                                   s \in PaymentStructures}]

NextBooking ==
  \E p \in Procs :
    \/ CallMarkPaid(p)
    \/ CallConfirm(p)
    \/ CallCancel(p)
    \/ InstallmentWrite(p)
    \/ StatusWrite(p)

SpecBooking == InitBooking /\ [][NextBooking]_vars

\* The same handlers with one request in flight at a time.
NextBookingSerial ==
  \E p \in Procs :
    \/ Quiescent /\ CallMarkPaid(p)
    \/ Quiescent /\ CallConfirm(p)
    \/ Quiescent /\ CallCancel(p)
    \/ InstallmentWrite(p)
    \/ StatusWrite(p)

SpecBookingSerial == InitBooking /\ [][NextBookingSerial]_vars

\* The escrow handlers and booking cancel over one booking, with the buyer
\* paying at the provider.
InitEscrow == InitBooking

NextEscrow ==
  \/ PayCheckout
  \/ \E p \in Procs :
       \/ CallReserve(p)
       \/ ReserveCreate(p)
       \/ CallConfirmReservation(p)
       \/ Retrieve(p)
       \/ CallRelease(p)
       \/ CallCancelEscrow(p)
       \/ Settle(p)
       \/ StripeInfoWrite(p)
       \/ EscrowWrite(p)
       \/ StatusWrite(p)
       \/ CallCancel(p)

SpecEscrow == InitEscrow /\ [][NextEscrow]_vars

\* Credit purchases: fulfill-credits requests over the provider's sessions.
NextPurchase ==
  \E p \in Procs :
    \/ CallFulfillCredits(p)
    \/ RetrievePurchase(p)
    \/ EnsureRead(p)
    \/ InitRead(p)
    \/ InitInsert(p)
    \/ InitLog(p)
    \/ FulfillAdd(p)
    \/ AddRead(p)
    \/ AddWrite(p)
    \/ AddLog(p)

SpecPurchase == Init /\ [][NextPurchase]_vars

\* The toast store: toasts are shown, dismissed and updated at any time; the
\* event loop runs every timer callback that is due.
NextToast ==
  \/ Toast
  \/ Dismiss
  \/ Update
  \/ FireTimer

SpecToast == Init /\ [][NextToast]_vars

SpecToastFair == SpecToast /\ WF_vars(FireTimer)

\* The escrow handlers over two bookings of two buyers and one checkout
\* session, each request slot serving one request: booking 1 is new, or its
\* buyer has reserved the escrow on session 1 and not paid yet.
InitEscrowPair ==
  /\ StandingRecords
  /\ credits = [u \in Users |-> Undefined]
  /\ creditLogs = [u \in Users |-> <<>>]
  /\ applications = <<>>
  /\ notifications = <<>>
  /\ pc = [p \in Procs |-> "idle"]
  /\ req = [p \in Procs |-> IdleReq]
  /\ profiles = [u1 |-> "free", u2 |-> "elite"]
  /\ posts = <<>>
  /\ LET first == NewBooking("u1", PlainBookingInput("full_upfront"))
         second == NewBooking("u2", PlainBookingInput("full_upfront"))
     IN \/ /\ bookings = <<first, second>>
           /\ stripe = [s \in Sessions |-> "none"]
        \/ /\ bookings = <<[first EXCEPT !.stripeSessionId = Some(1),
                                          !.paymentMethod = "escrow"], second>>
           /\ stripe = [s \in Sessions |-> "open"]

NextEscrowPair ==
  \/ PayCheckout
  \/ \E p \in Procs :
       \/ pc[p] = "idle" /\ CallReserve(p)
       \/ ReserveCreate(p)
       \/ pc[p] = "idle" /\ CallConfirmReservation(p)
       \/ Retrieve(p)
       \/ pc[p] = "idle" /\ CallRelease(p)
       \/ pc[p] = "idle" /\ CallCancelEscrow(p)
       \/ Settle(p)
       \/ StripeInfoWrite(p)
       \/ EscrowWrite(p)
       \/ StatusWrite(p)
       \/ pc[p] = "idle" /\ CallCancel(p)

SpecEscrowPair == InitEscrowPair /\ [][NextEscrowPair]_vars

\* Every handler that writes a booking's status, over one booking that names
\* a worker, each request slot serving one request.  The booking is new, or
\* reserved in escrow and authorized, or checked out through connect.  Both
\* accounts are on the elite plan, so that creating a booking costs no credit.
ConnectBooking(booking) ==
  [booking EXCEPT !.stripeSessionId = Some(1), !.paymentMethod = "stripe"]

InitStatus ==
  /\ StandingRecords
  /\ credits = [u \in Users |-> Undefined]
  /\ creditLogs = [u \in Users |-> <<>>]
  /\ applications = <<>>
  /\ notifications = <<>>
  /\ pc = [p \in Procs |-> "idle"]
  /\ req = [p \in Procs |-> IdleReq]
  /\ profiles = [u1 |-> "elite", u2 |-> "elite"]
  /\ posts = <<>>
  /\ \E s \in PaymentStructures :
       LET new == NewBooking("u1", [PlainBookingInput(s) EXCEPT
                                      !.workerSlug = Some(ProfileSlugs["u2"])])
       IN \/ /\ bookings = [id \in BookingIds |-> new]
             /\ stripe = [n \in Sessions |-> "none"]
          \/ /\ bookings = [id \in BookingIds |-> ReservedBooking(new)]
             /\ stripe = [n \in Sessions |-> "requires_capture"]
          \/ /\ bookings = [id \in BookingIds |-> ConnectBooking(new)]
             /\ stripe = [n \in Sessions |-> "open_connect"]

NextStatus ==
  \/ PayCheckout
  \/ PayConnect
  \/ \E p \in Procs :
       \/ CreateBookingFrom(p, {PlainBookingInput(s) : s \in PaymentStructures})
       \/ InsertBooking(p)
       \/ pc[p] = "idle" /\ CallMarkPaid(p)
       \/ pc[p] = "idle" /\ CallConfirm(p)
       \/ pc[p] = "idle" /\ CallCancel(p)
       \/ InstallmentWrite(p)
       \/ StatusWrite(p)
       \/ pc[p] = "idle" /\ CallReserve(p)
       \/ ReserveCreate(p)
       \/ pc[p] = "idle" /\ CallConfirmReservation(p)
       \/ Retrieve(p)
       \/ pc[p] = "idle" /\ CallRelease(p)
       \/ pc[p] = "idle" /\ CallCancelEscrow(p)
       \/ Settle(p)
       \/ StripeInfoWrite(p)
       \/ EscrowWrite(p)
       \/ pc[p] = "idle" /\ CallConnectCheckout(p)
       \/ ConnectAccount(p)
       \/ ConnectCreate(p)
       \/ pc[p] = "idle" /\ CallConnectFulfill(p)
       \/ ConnectRetrieve(p)

SpecStatus == InitStatus /\ [][NextStatus]_vars

\* Profiles, bookings that name workers, and the requests that read them:
\* each request slot serves one request.  Both accounts are on the elite
\* plan, so that a booking costs no credit.
InitDisclosure ==
  /\ EmptyDatabase
  /\ verificationRequests = <<>>
  /\ professionalVerifications = <<>>
  /\ follows = <<>>
  /\ NoToasts
  /\ profiles = [u1 |-> "elite", u2 |-> "elite"]
  /\ paymentHandles \in
       {[u \in Users |-> [NoHandles EXCEPT !.cashAppHandle = given[u]]] :
          given \in {[u1 |-> Null, u2 |-> Null],
                     [u1 |-> Some(CashTags["u1"]), u2 |-> Null],
                     [u1 |-> Some(CashTags["u1"]),
                      u2 |-> Some(CashTags["u2"])]}}
  /\ posts = <<>>
  /\ bookings \in
       {<<>>} \cup {<<NewBooking(u, input)>> :
                      u \in Users, input \in WorkerBookingInputs}

NextDisclosure ==
  \E p \in Procs :
    \/ CreateBookingFrom(p, WorkerBookingInputs)
    \/ InsertBooking(p)
    \/ pc[p] = "idle" /\ CallPaymentInfo(p)
    \/ WorkerProfile(p)
    \/ pc[p] = "idle" /\ CallListProfiles(p)
    \/ pc[p] = "idle" /\ CallGetProfile(p)
    \/ pc[p] = "idle" /\ CallSaveProfile(p)
    \/ UpdateProfile(p)

SpecDisclosure == InitDisclosure /\ [][NextDisclosure]_vars

\* ------------------------------------------------------ ledger claims
IsDebit(p) == pc[p] = "done" /\ req[p].op = "deductCredits"

Succeeded(p) == req[p].result # Undefined

\* Two finished debits of user u that met nothing but each other: the log holds
\* the opening grant and one entry per successful debit of the two.
DebitPair(p, q, u) ==
  /\ p # q
  /\ IsDebit(p) /\ IsDebit(q)
  /\ req[p].userId = u /\ req[q].userId = u
  /\ creditLogs[u] # <<>>
  /\ creditLogs[u][1].action = "init"
  /\ Len(creditLogs[u]) =
       1 + Cardinality({r \in {p, q} : Succeeded(r)})

\* Each debit alone fits the opening balance, both together do not.
Overdrawing(p, q, u) ==
  LET opening == creditLogs[u][1].amount IN
    /\ req[p].amount <= opening
    /\ req[q].amount <= opening
    /\ req[p].amount + req[q].amount > opening

\* C1: with the calls run one at a time, whenever no call is in flight the
\* amounts of a user's log entries add up to the user's balance (and a user
\* without a balance row has no log entries).
C1_LogSumEqualsBalance ==
  Quiescent =>
    \A u \in Users :
      IF credits[u] = Undefined
        THEN creditLogs[u] = <<>>
        ELSE SumAmounts(creditLogs[u]) = Balance(credits[u])

\* A user whose log holds a grant, a purchase and a debit, with no call in flight.
C1_Witness ==
  /\ Quiescent
  /\ \E u \in Users :
       /\ Len(creditLogs[u]) = 3
       /\ \E i \in 1..3 : creditLogs[u][i].amount < 0
       /\ \E i \in 1..3 : creditLogs[u][i].action = "purchase"

\* C2: of two concurrent debits that each fit the balance but together exceed
\* it, exactly one succeeds, and the balance is the opening balance less the
\* winner's amount.
C2_ExactlyOneDebitSucceeds ==
  \A p, q \in Procs : \A u \in Users :
    (DebitPair(p, q, u) /\ Overdrawing(p, q, u)) =>
      /\ Succeeded(p) # Succeeded(q)
      /\ Balance(credits[u]) =
           creditLogs[u][1].amount
             - (IF Succeeded(p) THEN req[p].amount ELSE req[q].amount)

\* C3: no stored balance is ever negative, whatever the interleaving.
C3_BalanceNeverNegative ==
  \A u \in Users : credits[u] # Undefined => Balance(credits[u]) >= 0

\* Two racing debits have both been applied to one user's balance.
C3_Witness ==
  \E p, q \in Procs : \E u \in Users :
    /\ DebitPair(p, q, u) /\ Overdrawing(p, q, u)
    /\ Succeeded(p) /\ Succeeded(q)
    /\ Balance(credits[u]) >= 0

\* C4: once every interleaved call has finished, each user's log amounts add
\* up to the stored balance.
C4_InterleavedLogSumEqualsBalance ==
  \A u \in Users :
    (Quiescent /\ credits[u] # Undefined) =>
      Balance(credits[u]) = SumAmounts(creditLogs[u])

\* C5: a debit that finds no balance row, or a balance below its amount,
\* returns undefined and leaves the balance rows and the log as they were.
C5_FailedDebitChangesNothing ==
  [][\A p \in Procs :
       ( /\ pc[p] = "deduct_read"
         /\ pc'[p] # pc[p]
         /\ \/ credits[req[p].userId] = Undefined
            \/ Balance(credits[req[p].userId]) < req[p].amount )
       => /\ pc'[p] = "done"
          /\ req'[p].result = Undefined
          /\ credits' = credits
          /\ creditLogs' = creditLogs]_vars

\* A finished debit that was refused against an existing, too small balance.
C5_Witness ==
  \E p \in Procs :
    /\ IsDebit(p)
    /\ ~Succeeded(p)
    /\ credits[req[p].userId] # Undefined
    /\ Balance(credits[req[p].userId]) < req[p].amount

\* ---------------------------------------------------- creation claims
CountLog(u, actions) ==
  Cardinality({i \in DOMAIN creditLogs[u] : creditLogs[u][i].action \in actions})

\* C6: for a charged (non-elite) user, once no request is in flight, every
\* created post, application and booking has its debit and every debit its
\* entity: per user, the debits logged for each kind of creation are as many as
\* the entities of that kind.
C6_DebitAndEntityAreOneUnit ==
  Quiescent =>
    \A u \in Users :
      profiles[u] # "elite" =>
        /\ CountLog(u, {"create_post", "create_event"}) =
             Cardinality({i \in DOMAIN posts : posts[i].userId = u})
        /\ CountLog(u, {"apply"}) =
             Cardinality({i \in DOMAIN applications :
                            applications[i].applicantId = u})
        /\ CountLog(u, {"booking"}) =
             Cardinality({i \in DOMAIN bookings : bookings[i].buyerUid = u})

\* ----------------------------------------------------- booking claims
Split(b) == bookings[b].paymentStructure = "split_50_50"

PairOf(row) == <<row.depositStatus, row.finalStatus>>

Alone(p) == \A q \in Procs \ {p} : pc[q] \in Rest

Answered(p, op) == pc[p] = "done" /\ req[p].op = op

InstallmentAnswer(p) ==
  /\ pc[p] = "done"
  /\ req[p].op \in {"markPaid", "confirm"}
  /\ req[p].input.installment \in Installments
  /\ req[p].result # Undefined
  /\ req[p].result[1].paymentStructure = "split_50_50"

\* C7: a booking whose status is confirmed or cancelled is terminal: no step
\* of any handler changes its status afterwards.
C7_TerminalStatusNeverChanges ==
  [][\A b \in BookingIds :
       bookings[b].status \in {"confirmed", "cancelled"}
         => bookings'[b].status = bookings[b].status]_vars

\* C8: on a fresh split_50_50 booking, an admin confirmation of the deposit
\* running on its own writes depositStatus paid and then status deposit_paid,
\* and a following admin confirmation of the final installment writes
\* finalStatus paid and then status confirmed.
C8_SplitConfirmSequence ==
  [][\A p \in Procs :
       LET id == req[p].input.bookingId
           old == bookings[id]
           new == bookings'[id]
       IN (/\ pc[p] \in {"installment_write", "status_write"}
           /\ pc'[p] # pc[p]
           /\ req[p].op = "confirm"
           /\ Alone(p)
           /\ Split(id))
          => /\ (/\ pc[p] = "installment_write"
                 /\ req[p].input.installment = "deposit"
                 /\ old.status = "pending_payment"
                 /\ PairOf(old) = <<"pending", "pending">>)
                => /\ new.status = "pending_payment"
                   /\ PairOf(new) = <<"paid", "pending">>
                   /\ pc'[p] = "status_write"
             /\ (/\ pc[p] = "status_write"
                 /\ req[p].input.installment = "deposit"
                 /\ old.status = "pending_payment"
                 /\ PairOf(old) = <<"paid", "pending">>)
                => /\ new.status = "deposit_paid"
                   /\ PairOf(new) = <<"paid", "pending">>
             /\ (/\ pc[p] = "installment_write"
                 /\ req[p].input.installment = "final"
                 /\ old.status = "deposit_paid"
                 /\ PairOf(old) = <<"paid", "pending">>)
                => /\ new.status = "deposit_paid"
                   /\ PairOf(new) = <<"paid", "paid">>
                   /\ pc'[p] = "status_write"
             /\ (/\ pc[p] = "status_write"
                 /\ req[p].input.installment = "final"
                 /\ old.status = "deposit_paid"
                 /\ PairOf(old) = <<"paid", "paid">>)
                => /\ new.status = "confirmed"
                   /\ PairOf(new) = <<"paid", "paid">>]_vars

C8_Witness ==
  \E p \in Procs :
    /\ Answered(p, "confirm")
    /\ req[p].input.installment = "final"
    /\ req[p].result[1].status = "confirmed"
    /\ PairOf(req[p].result[1]) = <<"paid", "paid">>
    /\ bookings[req[p].input.bookingId].status = "confirmed"
    /\ \E q \in Procs \ {p} :
         /\ Answered(q, "confirm")
         /\ req[q].input.installment = "deposit"
         /\ req[q].result[1].status = "deposit_paid"

\* C9: the row an installment write answers with has a status determined by
\* its (depositStatus, finalStatus) pair alone: two answers with the same pair
\* carry the same status.
C9_StatusIsFunctionOfInstallmentPair ==
  \A p, q \in Procs :
    (/\ InstallmentAnswer(p)
     /\ InstallmentAnswer(q)
     /\ PairOf(req[p].result[1]) = PairOf(req[q].result[1]))
    => req[p].result[1].status = req[q].result[1].status

\* C10: once an admin confirmation of the deposit and an admin confirmation
\* of the final installment of the same split_50_50 booking have both been
\* answered and both installments are paid, the booking is confirmed.
C10_ConcurrentConfirmsEndConfirmed ==
  \A p, q \in Procs :
    (/\ Answered(p, "confirm")
     /\ Answered(q, "confirm")
     /\ req[p].input.installment = "deposit"
     /\ req[q].input.installment = "final"
     /\ req[p].input.bookingId = req[q].input.bookingId
     /\ Split(req[p].input.bookingId)
     /\ PairOf(bookings[req[p].input.bookingId]) = <<"paid", "paid">>)
    => bookings[req[p].input.bookingId].status = "confirmed"

\* p starts a request in this step (the call and its first read).
Calls(p, op) ==
  /\ pc[p] \in Rest
  /\ <<pc'[p], req'[p]>> # <<pc[p], req[p]>>
  /\ req'[p].op = op

\* C11: a buyer's mark-paid of the final installment of a split_50_50 booking
\* whose deposit is not paid is rejected and changes no booking, and
\* finalStatus never becomes submitted while depositStatus is not paid.
C11_FinalBeforeDepositRejected ==
  [][/\ \A p \in Procs :
          LET id == req'[p].input.bookingId IN
          (/\ Calls(p, "markPaid")
           /\ req'[p].input.installment = "final"
           /\ id \in BookingIds
           /\ Split(id)
           /\ bookings[id].depositStatus # "paid")
          => pc'[p] = "rejected" /\ bookings' = bookings
     /\ \A b \in BookingIds :
          (bookings[b].finalStatus # "submitted"
             /\ bookings'[b].finalStatus = "submitted")
          => bookings'[b].depositStatus = "paid"]_vars

\* ------------------------------------------------------ pricing claims
\* C12: a split_50_50 booking stores depositAmount = ceil(totalAmount / 2)
\* and finalAmount = totalAmount - depositAmount, so the two add up to
\* totalAmount and differ by 0 or 1; a full_upfront booking stores no
\* amounts and no installment statuses.
C12_SplitAmounts ==
  \A i \in DOMAIN bookings :
    LET b == bookings[i] IN
      IF b.paymentStructure = "split_50_50"
        THEN /\ b.depositAmount # Null /\ b.finalAmount # Null
             /\ LET d == b.depositAmount[1]
                    f == b.finalAmount[1]
                IN /\ 2 * d >= b.totalAmount
                   /\ 2 * (d - 1) < b.totalAmount
                   /\ f = b.totalAmount - d
                   /\ d + f = b.totalAmount
                   /\ d - f \in {0, 1}
        ELSE /\ b.depositAmount = Null /\ b.finalAmount = Null
             /\ b.depositStatus = "null" /\ b.finalStatus = "null"

C12_Witness ==
  \E i, j \in DOMAIN bookings :
    /\ bookings[i].paymentStructure = "split_50_50"
    /\ bookings[i].totalAmount % 2 = 1
    /\ bookings[i].depositAmount[1] - bookings[i].finalAmount[1] = 1
    /\ bookings[j].paymentStructure = "full_upfront"

\* C13: every stored booking has totalAmount = basePay + platformFee +
\* boostFee, the four fields being amounts in the same unit, with platformFee
\* the tier's fee (200 for Projects) and boostFee the boost's fee.
C13_TotalIsSumOfStoredFields ==
  \A i \in DOMAIN bookings :
    LET b == bookings[i] IN
      /\ b.platformFee = TIER_FEES(b.tier)
      /\ b.boostFee = BOOST_FEES(b.boost)
      /\ b.totalAmount = b.basePay + b.platformFee + b.boostFee

\* The credit cost of a listing as the price list states it.
ListedPostCost(tier) ==
  CASE tier = "Slots" -> 1 [] tier = "Missions" -> 2 [] tier = "Tasks" -> 3
    [] tier = "Projects" -> 4 [] tier = "Chances" -> 5 [] OTHER -> 1

ListedBoostCost(boost) ==
  CASE boost = "None" -> 0 [] boost = "24h Boost" -> 2 [] boost = "72h Boost" -> 4
    [] boost = "7 Day Featured" -> 8 [] OTHER -> 0

ListedCost(input) ==
  (IF input.postType = "event" THEN (IF input.nsfw THEN 3 ELSE 1)
   ELSE ListedPostCost(input.tier))
  + ListedBoostCost(input.boostLevel)

\* C14: the debit of POST /api/posts takes (event ? eventCost(nsfw) :
\* postCost(tier)) + boostCost(boostLevel) credits from the balance and logs
\* that amount; a non-event Projects post with 72h Boost costs 8.
C14_ListingDebitIsListedCost ==
  [][\A p \in Procs :
       LET u == req[p].userId IN
       (req[p].op = "createPost" /\ pc'[p] # pc[p])
       => /\ pc[p] = "deduct_write"
             => Balance(credits'[u]) = Balance(credits[u]) - ListedCost(req[p].input)
          /\ pc[p] = "deduct_log"
             => creditLogs'[u] =
                  Append(creditLogs[u],
                         [action |-> IF req[p].input.postType = "event"
                                       THEN "create_event" ELSE "create_post",
                          amount |-> 0 - ListedCost(req[p].input)])]_vars

C14_Witness ==
  \E p \in Procs, u \in Users :
    /\ pc[p] = "done"
    /\ req[p].op = "createPost"
    /\ req[p].userId = u
    /\ req[p].input.postType = "gig"
    /\ req[p].input.tier = "Projects"
    /\ req[p].input.boostLevel = "72h Boost"
    /\ credits[u] # Undefined
    /\ Balance(credits[u]) = OpeningBalance - 8
    /\ creditLogs[u] # <<>>
    /\ creditLogs[u][Len(creditLogs[u])].amount = 0 - 8

\* ------------------------------------------------------- escrow claims
EscrowOps == {"reserve", "confirmReservation", "release", "cancelEscrow"}

\* The step leaves the payment provider and the bookings as they were.
NoEffect == stripe' = stripe /\ bookings' = bookings

\* p is in this step refused before any further step of its handler.
Refused(p) == pc'[p] = "rejected" /\ NoEffect

\* C15: reserve on a booking that is not pending_payment or whose escrow is
\* authorized, and release or cancel of an escrow that is not authorized, are
\* rejected with no provider call and no change of the booking.
C15_EscrowPreconditions ==
  [][\A p \in Procs :
       LET id == req'[p].input.bookingId IN
       /\ (/\ Calls(p, "reserve")
           /\ id \in BookingIds
           /\ \/ bookings[id].status # "pending_payment"
              \/ bookings[id].escrowStatus = "authorized")
          => Refused(p)
       /\ (/\ \/ Calls(p, "release")
              \/ Calls(p, "cancelEscrow")
           /\ id \in BookingIds
           /\ bookings[id].escrowStatus # "authorized")
          => Refused(p)]_vars

C15_Witness ==
  \E p, q \in Procs :
    /\ pc[p] = "rejected" /\ req[p].op = "reserve"
    /\ req[p].userId = "u1"
    /\ req[p].input.bookingId \in BookingIds
    /\ bookings[req[p].input.bookingId].escrowStatus = "authorized"
    /\ pc[q] = "rejected" /\ req[q].op = "release"
    /\ req[q].userId = "u1"
    /\ req[q].input.bookingId \in BookingIds

\* C16: escrowStatus changes only from none to authorized and from
\* authorized to captured or cancelled.
C16_EscrowTransitions ==
  [][\A b \in BookingIds :
       bookings'[b].escrowStatus # bookings[b].escrowStatus
         => <<bookings[b].escrowStatus, bookings'[b].escrowStatus>> \in
              {<<"none", "authorized">>, <<"authorized", "captured">>,
               <<"authorized", "cancelled">>}]_vars

Moves(p) == pc'[p] # pc[p]

\* C17: confirm-reservation on a booking whose escrow is already authorized
\* answers success with no provider call and no booking change; and a
\* confirm-reservation request writes the booking only after the provider
\* reported the payment as awaiting capture, writing escrowStatus authorized
\* and status payment_submitted.
C17_ConfirmReservationIdempotent ==
  [][\A p \in Procs :
       LET id == req'[p].input.bookingId IN
       /\ (/\ Calls(p, "confirmReservation")
           /\ id \in BookingIds
           /\ req'[p].userId = bookings[id].buyerUid
           /\ bookings[id].escrowStatus = "authorized")
          => pc'[p] = "done" /\ NoEffect
       /\ (req[p].op = "confirmReservation" /\ Moves(p))
          => /\ (pc[p] = "retrieve" /\ stripe[req[p].session[1]] # "requires_capture")
                => pc'[p] \in {"declined", "failed"} /\ NoEffect
             /\ bookings' # bookings
                => pc[p] \in {"stripe_info_write", "escrow_write", "status_write"}
             /\ pc[p] = "escrow_write"
                => bookings'[req[p].input.bookingId].escrowStatus = "authorized"
             /\ pc[p] = "status_write"
                => bookings'[req[p].input.bookingId].status = "payment_submitted"]_vars

C17_Witness ==
  \E p, q \in Procs :
    /\ p # q
    /\ pc[p] = "done" /\ req[p].op = "confirmReservation"
    /\ pc[q] = "declined" /\ req[q].op = "confirmReservation"
    /\ bookings[req[p].input.bookingId].escrowStatus = "authorized"
    /\ bookings[req[p].input.bookingId].status = "payment_submitted"

\* C18: release and cancel of an escrow call the provider before any booking
\* write; when the provider call fails the request fails and neither the
\* booking nor the provider state changes; when it succeeds release ends with
\* escrowStatus captured and status confirmed, cancel with escrowStatus
\* cancelled and status cancelled.
C18_SettleProviderFirst ==
  [][\A p \in Procs :
       LET id == req[p].input.bookingId IN
       (req[p].op \in {"release", "cancelEscrow"} /\ Moves(p) /\ pc[p] \notin Rest)
       => /\ pc[p] = "settle"
             => /\ bookings' = bookings
                /\ pc'[p] \in {"escrow_write", "failed"}
                /\ pc'[p] = "failed" => stripe' = stripe
                /\ pc'[p] = "escrow_write" => stripe' # stripe
          /\ pc'[p] = "done"
             => IF req[p].op = "release"
                  THEN /\ bookings'[id].escrowStatus = "captured"
                       /\ bookings'[id].status = "confirmed"
                  ELSE /\ bookings'[id].escrowStatus = "cancelled"
                       /\ bookings'[id].status = "cancelled"]_vars

\* What each escrow operation needs of the booking besides an entitled caller.
EscrowReady(op, b) ==
  CASE op = "reserve" -> b.status = "pending_payment" /\ b.escrowStatus # "authorized"
    [] op = "confirmReservation" ->
         b.escrowStatus = "authorized" \/ b.stripeSessionId # Null
    [] OTHER -> b.escrowStatus = "authorized" /\ b.stripePaymentIntentId # Null

\* An escrow call by an entitled caller on a ready booking is not rejected,
\* and one by any other caller is rejected with no provider call and no
\* booking change.
EscrowCallsRespect(entitled(_, _)) ==
  \A p \in Procs :
    LET id == req'[p].input.bookingId
        op == req'[p].op
    IN (/\ pc[p] \in Rest
        /\ <<pc'[p], req'[p]>> # <<pc[p], req[p]>>
        /\ op \in EscrowOps
        /\ id \in BookingIds)
       => IF req'[p].userId \in entitled(op, bookings[id])
            THEN EscrowReady(op, bookings[id]) => pc'[p] # "rejected"
            ELSE Refused(p)

BuyerOrAdmin(op, b) == {b.buyerUid} \cup Admins

BuyerToReserve(op, b) ==
  IF op \in {"reserve", "confirmReservation"} THEN {b.buyerUid}
  ELSE {b.buyerUid} \cup Admins

\* C19 as stated: each of reserve, confirm-reservation, release and cancel of
\* an escrow is open to the booking's buyer and to an admin, and is rejected
\* with no provider call and no booking change for any other caller.
C19_EscrowOpenToBuyerOrAdmin == [][EscrowCallsRespect(BuyerOrAdmin)]_vars

\* C19 amended: reserve and confirm-reservation are open to the booking's
\* buyer only, release and cancel to the buyer and to an admin; any other
\* caller is rejected with no provider call and no booking change.
C19_EscrowAuthorization == [][EscrowCallsRespect(BuyerToReserve)]_vars

C19_Witness ==
  \E p, q \in Procs :
    /\ pc[p] = "rejected" /\ req[p].op = "reserve"
    /\ req[p].userId \in Admins
    /\ req[p].input.bookingId \in BookingIds
    /\ pc[q] = "done" /\ req[q].op = "release"
    /\ req[q].userId \in Admins
    /\ bookings[req[q].input.bookingId].escrowStatus = "captured"

\* C20: a cancel request by a caller who is neither the booking's buyer nor
\* an admin is rejected and changes no booking; a cancel request changes a
\* booking only for the buyer or an admin, and only its status.
C20_CancelAuthorization ==
  [][\A p \in Procs :
       /\ LET id == req'[p].input.bookingId IN
            (/\ Calls(p, "cancel")
             /\ id \in BookingIds
             /\ req'[p].userId \notin {bookings[id].buyerUid} \cup Admins)
            => pc'[p] = "rejected" /\ bookings' = bookings
       /\ LET id == req[p].input.bookingId IN
            (req[p].op = "cancel" /\ Moves(p) /\ bookings' # bookings)
            => /\ req[p].userId \in {bookings[id].buyerUid} \cup Admins
               /\ bookings' = [bookings EXCEPT ![id].status = "cancelled"]]_vars

C20_Witness ==
  \E p, q \in Procs :
    /\ pc[p] = "rejected" /\ req[p].op = "cancel"
    /\ req[p].userId = "u2"
    /\ req[p].input.bookingId \in BookingIds
    /\ pc[q] = "done" /\ req[q].op = "cancel"
    /\ req[q].userId \in Admins
    /\ bookings[req[q].input.bookingId].status = "cancelled"


\* ------------------------------------------------------ listing claims
\* The step in which request p is received and its checks run.
Received(p, op) == pc[p] = "idle" /\ pc'[p] # "idle" /\ req'[p].op = op

\* The step leaves balances, credit logs and posts as they were.
NothingCharged == credits' = credits /\ creditLogs' = creditLogs /\ posts' = posts

HoldsLicence(u, category) ==
  \E i \in DOMAIN professionalVerifications :
    professionalVerifications[i] =
      [userId |-> u, category |-> category, status |-> "approved"]

C22_AdultCategoriesStoredNsfw ==
  \A i \in DOMAIN posts :
    posts[i].category \in {"Adult/NSFW", "Adult Club Event"} => posts[i].nsfw

C22_Witness ==
  \E p \in Procs :
    /\ pc[p] = "done"
    /\ req[p].op = "createPost"
    /\ req[p].body.category = "Adult/NSFW"
    /\ ~req[p].body.nsfw
    /\ req[p].entity \in DOMAIN posts
    /\ posts[req[p].entity].category = "Adult/NSFW"

HoldsAgeProof(u) ==
  \E i \in DOMAIN verificationRequests :
    verificationRequests[i] =
      [userId |-> u, status |-> "approved", ageConfirmed |-> TRUE]

\* The request asks for a listing behind the age gate.
AdultListing(input) ==
  input.nsfw \/ input.category \in {"Adult/NSFW", "Adult Club Event"}

C30_NotificationIsBestEffort ==
  [][\A p \in Procs :
       (pc[p] = "notify" /\ pc'[p] # "notify")
       => /\ pc'[p] = "done"
          /\ req[p].entity \in DOMAIN posts
          /\ req'[p].result = <<posts[req[p].entity]>>
          /\ NothingCharged]_vars

\* A paid listing is answered although a follower is left without notification.
C30_Witness ==
  \E p \in Procs :
    /\ pc[p] = "done"
    /\ req[p].op = "createPost"
    /\ req[p].userId = "u1"
    /\ req[p].entity \in DOMAIN posts
    /\ Len(follows) = 2
    /\ Len(notifications) = 1
    /\ CountLog("u1", {"create_post", "create_event"}) = 1


\* The post list answered to request p holds a post stored with nsfw = TRUE.
ListsNsfw(p) == \E k \in DOMAIN req[p].result : posts[req[p].result[k]].nsfw

\* Request p listed the posts for a viewer who is not signed in or holds no
\* approved verification request that confirms their age.
ListedForMinor(p) ==
  /\ pc[p] = "done"
  /\ req[p].op = "listPosts"
  /\ ~HoldsAgeProof(req[p].userId)

\* C24: a list answered to such a viewer holds no nsfw post, and two lists
\* answered to one such viewer whose requests differ only in includeNsfw hold
\* the same posts.
C24_NsfwHiddenFromUnverified ==
  /\ \A p \in Procs : ListedForMinor(p) => ~ListsNsfw(p)
  /\ \A p, q \in Procs :
       (/\ ListedForMinor(p)
        /\ ListedForMinor(q)
        /\ req[p].userId = req[q].userId
        /\ req[p].body.postType = req[q].body.postType
        /\ req[p].body.category = req[q].body.category)
       => req[p].result = req[q].result

C24_Witness ==
  \E p, q \in Procs :
    /\ ListedForMinor(p)
    /\ ListedForMinor(q)
    /\ req[p].userId = "u1"
    /\ req[q].userId = "u1"
    /\ req[p].body = [includeNsfw |-> "true", postType |-> "all", category |-> "All"]
    /\ req[q].body = [includeNsfw |-> "false", postType |-> "all", category |-> "All"]
    /\ \E i \in DOMAIN posts : posts[i].nsfw
    /\ \E i \in DOMAIN verificationRequests :
         /\ verificationRequests[i].userId = "u1"
         /\ verificationRequests[i].status = "approved"
    /\ Len(req[p].result) = 1


\* -------------------------------------------------- application claims
\* C26: no two applications have the same post and the same applicant.
C26_OneApplicationPerPostAndApplicant ==
  \A i, j \in DOMAIN applications :
    (/\ applications[i].postId = applications[j].postId
     /\ applications[i].applicantId = applications[j].applicantId)
    => i = j


\* C27 (second half): a step changes the status of an application only when
\* it is taken by a request of the owner of the application's post.
C27_OnlyPostOwnerResponds ==
  [][\A i \in DOMAIN applications :
       applications'[i].status # applications[i].status
       => \E p \in Procs :
            /\ pc[p] = "update_application"
            /\ pc'[p] = "done"
            /\ req[p].entity = i
            /\ req[p].userId = posts[applications[i].postId].userId]_vars

\* C27: the status of an application that is accepted or rejected never
\* changes again, and only a request of the owner of the application's post
\* changes an application's status.
C27_ResponseIsFinal ==
  [][\A i \in DOMAIN applications :
       /\ applications[i].status \in {"accepted", "rejected"}
          => applications'[i].status = applications[i].status
       /\ applications'[i].status # applications[i].status
          => \E p \in Procs :
               /\ pc[p] = "update_application"
               /\ req[p].entity = i
               /\ req[p].userId = posts[applications[i].postId].userId]_vars


\* ------------------------------------------------------- grant claims
\* A request is between the insert of u's balance row and its log entry.
Granting(u) == \E p \in Procs : pc[p] = "init_log" /\ req[p].userId = u

\* C28: initCredits for a user with a balance row returns that row and
\* changes neither balance nor log; over every interleaving of initCredits and
\* ensureCredits calls a user has no init entry without a balance row, never
\* more than one, and exactly one once the row's creation has logged.
C28_InitCreditsIdempotent ==
  /\ [](\A u \in Users :
          /\ CountLog(u, {"init"}) <= 1
          /\ credits[u] = Undefined => CountLog(u, {"init"}) = 0
          /\ (credits[u] # Undefined /\ ~Granting(u)) => CountLog(u, {"init"}) = 1)
  /\ [][\A p \in Procs :
          (/\ pc[p] = "init_read"
           /\ pc'[p] # "init_read"
           /\ credits[req[p].userId] # Undefined)
          => /\ pc'[p] = req[p].ret
             /\ req'[p].result = credits[req[p].userId]
             /\ credits' = credits
             /\ creditLogs' = creditLogs]_vars

\* Two calls for one user are answered; the second asked for another balance
\* than the row holds.
C28_Witness ==
  \E p, q \in Procs :
    /\ p # q
    /\ pc[p] = "done" /\ req[p].op = "initCredits" /\ req[p].userId = "u1"
    /\ pc[q] = "done" /\ req[q].op = "initCredits" /\ req[q].userId = "u1"
    /\ credits["u1"] # Undefined
    /\ req[q].result = credits["u1"]
    /\ req[q].balance # Balance(credits["u1"])
    /\ CountLog("u1", {"init"}) = 1


\* C29: with one call at a time, addCredits(userId, amount, action) for a user
\* without a balance row sets the balance to amount and appends one entry
\* (init, amount); for a user with a balance row it adds amount to the balance
\* and appends one entry (action, +amount).  A user without a row has no
\* entry, so the entry of a call is the first one exactly in the former case.
C29_AddCreditsGrantsOrAdds ==
  [][\A p \in Procs :
       LET u == req[p].userId
           amount == req[p].amount IN
       (req[p].op = "addCredits" /\ pc[p] \notin Rest /\ pc'[p] # pc[p])
       => /\ credits'[u] # credits[u]
             => credits'[u] =
                  Row(IF credits[u] = Undefined
                        THEN amount ELSE Balance(credits[u]) + amount)
          /\ creditLogs'[u] # creditLogs[u]
             => creditLogs'[u] =
                  Append(creditLogs[u],
                         IF creditLogs[u] = <<>>
                           THEN [action |-> "init", amount |-> amount]
                           ELSE [action |-> req[p].action, amount |-> amount])
          /\ pc'[p] = "done"
             => /\ Len(creditLogs'[u]) = Len(creditLogs[u]) + 1
                /\ req'[p].result = credits[u]
                /\ credits[u] # Undefined]_vars

C29_Witness ==
  \E p \in Procs :
    /\ pc[p] = "done"
    /\ req[p].op = "addCredits"
    /\ req[p].userId = "u1"
    /\ req[p].amount = 2
    /\ req[p].action = "purchase"
    /\ credits["u1"] = Row(2)
    /\ creditLogs["u1"] = <<[action |-> "init", amount |-> 2]>>


\* ------------------------------------------------------- frame claims
\* The positions of a request that has so far only read.
BeforeWrites == {"idle", "apply_get_post", "apply_check", "retrieve"}

\* The step leaves balances, credit logs, posts, applications and bookings as
\* they were.
DataUnchanged ==
  /\ credits' = credits
  /\ creditLogs' = creditLogs
  /\ posts' = posts
  /\ applications' = applications
  /\ bookings' = bookings

\* C25: a request that is refused for a missing session, a failed validation,
\* a missing right, an unknown id or an unmet precondition (every refusal but
\* the one for insufficient credits, which follows ensureCredits) is refused
\* in a step that changes no balance, credit log, post, application or
\* booking, and has until then taken only steps that change none.
C25_RefusalChangesNothing ==
  [][\A p \in Procs :
       /\ (pc'[p] \in {"rejected", "declined"} /\ pc[p] \notin Rest \cup {"afford"})
          => DataUnchanged /\ pc[p] \in BeforeWrites
       /\ (pc'[p] \in {"rejected", "declined"} /\ pc[p] = "idle")
          => DataUnchanged
       /\ (pc'[p] \in BeforeWrites /\ pc'[p] # pc[p])
          => DataUnchanged /\ pc[p] \in BeforeWrites]_vars

\* An application for an unknown post and a release of an escrow that is not
\* authorized were refused, and the applicant still has no balance row.
C25_Witness ==
  \E p, q \in Procs :
    /\ pc[p] = "rejected"
    /\ req[p].op = "createApplication"
    /\ req[p].userId = "u1"
    /\ req[p].input.postId \notin DOMAIN posts
    /\ credits["u1"] = Undefined
    /\ pc[q] = "rejected"
    /\ req[q].op = "release"
    /\ req[q].userId = "u1"

\* ------------------------------------------------------ disclosure claims
\* The response row carries no payment handle.
CarriesNoHandle(row) ==
  /\ row.cashAppHandle = Undefined
  /\ row.venmoHandle = Undefined
  /\ row.zelleHandle = Undefined
  /\ row.paypalHandle = Undefined

\* Request p has answered its caller with a Cash App handle.
DisclosedHandle(p) ==
  /\ pc[p] = "done"
  /\ req[p].op = "paymentInfo"
  /\ req[p].result[1].cashAppHandle # Null

\* The booking that request p asked about names worker w, and the caller is
\* its buyer or an admin.
BuyerOfBookingNaming(p, w) ==
  LET id == req[p].input.bookingId IN
    /\ id \in DOMAIN bookings
    /\ bookings[id].workerSlug = Some(ProfileSlugs[w])
    /\ bookings[id].buyerUid = req[p].userId \/ isAdmin(req[p].userId)

\* C31: profile list and profile detail responses carry no payment handle,
\* and a payment-info response carries the Cash App handle of a worker only
\* to the buyer of an existing booking that names that worker, or to an admin.
C31_HandleOnlyToBuyerOrAdmin ==
  \A p \in Procs :
    /\ pc[p] = "done" /\ req[p].op = "listProfiles" =>
         \A row \in req[p].result[1].profiles : CarriesNoHandle(row)
    /\ pc[p] = "done" /\ req[p].op = "getProfile" =>
         CarriesNoHandle(req[p].result[1])
    /\ DisclosedHandle(p) =>
         \E w \in Users :
           /\ req[p].result[1].cashAppHandle = Some(CashTags[w])
           /\ BuyerOfBookingNaming(p, w)

\* A buyer other than the worker has been given the handle through
\* payment-info, while the detail of the same worker's profile, who stores a
\* handle, has been answered to another request.
C31_Witness ==
  \E p, q \in Procs, w \in Users :
    /\ DisclosedHandle(p)
    /\ req[p].userId # w
    /\ req[p].result[1].cashAppHandle = Some(CashTags[w])
    /\ pc[q] = "done" /\ req[q].op = "getProfile"
    /\ req[q].input.slug = ProfileSlugs[w]
    /\ paymentHandles[w].cashAppHandle # Null

\* ------------------------------------------------------- gating claims
CreationOps == {"createPost", "createApplication", "createBooking"}

\* Request p stands at the affordability check of a creation handler with a
\* plan other than elite and a balance, as ensureCredits returned it, below
\* the cost.
CannotAfford(p) ==
  /\ pc[p] = "afford"
  /\ req[p].op \in CreationOps
  /\ req[p].plan # "elite"
  /\ Balance(req[p].result) < req[p].cost

\* C32: canAfford is true for the elite plan whatever the balance and otherwise
\* exactly when balance >= cost; the check of a non-elite user whose balance is
\* below the cost ends the request with the insufficient-credits refusal, and
\* that step changes no table: nothing is created and no debit is logged.
C32_InsufficientCreditsRejected ==
  /\ [](\A balance \in 0..OpeningBalance, cost \in 0..OpeningBalance,
          plan \in Plans :
          canAfford(balance, cost, plan) <=> (plan = "elite" \/ balance >= cost))
  /\ [](\A p \in Procs :
          pc[p] = "rejected" /\ req[p].op \in CreationOps => req[p].entity = 0)
  /\ [][\A p \in Procs :
          CannotAfford(p) /\ pc'[p] # pc[p] =>
            /\ pc'[p] = "rejected"
            /\ req'[p] = req[p]
            /\ UNCHANGED <<ledger, tables>>]_vars

\* A booking and an application of the paying account have both been refused
\* for a balance of 0, below the cost of 1.
C32_Witness ==
  \E p, q \in Procs :
    /\ pc[p] = "rejected" /\ req[p].op = "createBooking"
    /\ pc[q] = "rejected" /\ req[q].op = "createApplication"
    /\ req[p].result # Undefined /\ req[q].result # Undefined
    /\ Balance(req[p].result) < req[p].cost
    /\ Balance(req[q].result) < req[q].cost
    /\ bookings = <<>> /\ applications = <<>>

\* C33: an account on the elite plan is not debited by creating a post,
\* applying to a post or creating a booking: its balance never decreases and
\* its log gains no negative entry.
C33_EliteNeverDebited ==
  [][\A u \in Users :
       profiles[u] = "elite" =>
         /\ credits[u] # Undefined =>
               credits'[u] # Undefined /\ Balance(credits'[u]) >= Balance(credits[u])
         /\ \A i \in DOMAIN creditLogs'[u] :
               i \notin DOMAIN creditLogs[u] => creditLogs'[u][i].amount >= 0]_vars

\* ------------------------------------------- booking and escrow invariants
\* C34: a split_50_50 booking with status confirmed has both installments
\* paid, whichever operation wrote the status.
C34_ConfirmedSplitIsPaid ==
  \A b \in DOMAIN bookings :
    Split(b) /\ bookings[b].status = "confirmed" =>
      bookings[b].depositStatus = "paid" /\ bookings[b].finalStatus = "paid"

\* C35: once all requests have finished, no booking is cancelled while its
\* escrow is still authorized.
C35_NeverCancelledWhileHeld ==
  Quiescent =>
    \A b \in DOMAIN bookings :
      ~(bookings[b].status = "cancelled"
          /\ bookings[b].escrowStatus = "authorized")

\* Request p has sent stripe.paymentIntents.capture (release) or
\* stripe.paymentIntents.cancel (cancelEscrow) to the provider: it is past
\* the call, whether the provider settled the intent or answered an error.
Finalising(p) ==
  /\ req[p].op \in {"release", "cancelEscrow"}
  /\ pc[p] \in {"escrow_write", "status_write", "done", "failed"}

\* C36: the provider receives at most one finalising call (capture or cancel)
\* for one booking: no two requests have both sent one for the same booking.
C36_AtMostOneFinalisingCall ==
  \A p, q \in Procs :
    p # q /\ Finalising(p) /\ Finalising(q) =>
      req[p].input.bookingId # req[q].input.bookingId

\* C37: the payment intent recorded on a booking is the intent of the checkout
\* session that reserve stored on that same booking (the intent of session s
\* is named s).
C37_IntentOfOwnSession ==
  \A b \in DOMAIN bookings :
    bookings[b].stripePaymentIntentId # Null =>
      bookings[b].stripePaymentIntentId = bookings[b].stripeSessionId

\* ------------------------------------------------------- purchase claims
\* The paid purchase sessions of user u that carry credits.
PaidSessions(u) ==
  {id \in PurchaseSessionIds :
     /\ retrieveSession(id).payment_status = "paid"
     /\ retrieveSession(id).metadata.userId = u
     /\ parseInt(retrieveSession(id).metadata.credits) > 0}

\* C38: a paid purchase session is credited at most once: each user's log
\* holds no more purchase entries than the user has paid sessions.
C38_PaidSessionCreditedOnce ==
  \A u \in Users : CountLog(u, {"purchase"}) <= Cardinality(PaidSessions(u))

\* ---------------------------------------------------------- status claims
\* Request p starts, in this step, an escrow reserve or a connect checkout for
\* a booking whose status is no longer pending_payment.
StartsCheckoutOfSettled(p) ==
  /\ pc[p] = "idle" /\ pc'[p] # "idle"
  /\ req'[p].op \in {"reserve", "connectCheckout"}
  /\ req'[p].input.bookingId \in DOMAIN bookings
  /\ bookings[req'[p].input.bookingId].status # "pending_payment"

\* C39: a booking's status never returns to pending_payment once it has taken
\* another value, and an escrow reserve or connect checkout that starts on
\* such a booking is refused.
C39_NeverBackToPendingPayment ==
  [][/\ \A b \in DOMAIN bookings :
          bookings[b].status # "pending_payment" =>
            b \in DOMAIN bookings' /\ bookings'[b].status # "pending_payment"
     /\ \A p \in Procs :
          StartsCheckoutOfSettled(p) => pc'[p] = "rejected"]_vars

\* A reserve and a connect checkout of the buyer have both been refused on the
\* booking, whose status has left pending_payment.
C39_Witness ==
  \E p, q \in Procs :
    /\ pc[p] = "rejected" /\ req[p].op = "reserve"
    /\ pc[q] = "rejected" /\ req[q].op = "connectCheckout"
    /\ req[p].input.bookingId = 1 /\ req[q].input.bookingId = 1
    /\ req[p].userId = bookings[1].buyerUid
    /\ req[q].userId = bookings[1].buyerUid
    /\ bookings[1].status # "pending_payment"

\* ----------------------------------------------------------- toast claims
\* The toast has been dismissed: its duration timer has run, or a dismissal
\* has made its entry in `timeouts`.
Dismissed(toastId) ==
  /\ toastId \in timeouts
  /\ [kind |-> "dismiss", toastId |-> toastId] \notin timers

\* The list never holds more than TOAST_LIMIT toasts.
ToastLimitHolds == Len(memoryState) <= TOAST_LIMIT

\* C40: every dismissed toast is eventually removed from the list, and the
\* list never holds more than TOAST_LIMIT toasts.
C40_DismissedToastIsRemoved ==
  /\ []ToastLimitHolds
  /\ \A n \in 1..MaxToasts :
       [](Dismissed(ToString(n)) => <>(ToString(n) \notin ToastIds(memoryState)))

====
